---- MODULE Spec2Model ----
(***************************************************************************)
(* State-machine model of the StreamToy display core:                      *)
(*   - DisplayStateManager (stream_toy/display_state_manager.py)           *)
(*   - the device backends' tile queue and flush                           *)
(*     (stream_toy/device/streamdock293v3_device.py, web_device.py)        *)
(*                                                                         *)
(* Spec        : the state manager with arbitrary viewer callbacks and     *)
(*               device handles, called from two threads.                  *)
(* SpecDevices : the state manager driving the hardware and the web        *)
(*               backend, tile by tile.                                    *)
(***************************************************************************)
EXTENDS Integers, Sequences, FiniteSets, TLC

(***************************************************************************)
(* Program constants                                                       *)
(***************************************************************************)
TILE_ROWS == 3
TILE_COLS == 5
TILE_SIZE == 112

(***************************************************************************)
(* Bounds of the model                                                     *)
(***************************************************************************)
\* operations (register, unregister, set_tile, submit) begun in a run of Spec
MaxOps == 4

(***************************************************************************)
(* Values                                                                  *)
(***************************************************************************)
Threads == {"t1", "t2"}
NoThread == "free"
\* Python's None: for an omitted cache_key, and for dict.get() of a missing slot
NoKey == "<None>"
None == <<>>

MockViewers == {"m1", "m2"}
Devices == {"hw", "web"}
AllViewers == MockViewers \cup Devices

Grid == (0 .. TILE_ROWS - 1) \X (0 .. TILE_COLS - 1)

\* Source files scene code may name, and two spellings of one of them.
GoodSources == {"cover.png", "alt.png"}
Sources == GoodSources \cup {"./cover.png", "corrupt.png", "missing.png"}

\* pathlib.Path(p): equal paths are those with equal parts; a leading "./" is
\* dropped when the string is parsed.
Path(p) == IF p = "./cover.png" THEN "cover.png" ELSE p

\* cache_key = cache_key or ""
KeyOrEmpty(k) == IF k = NoKey \/ k = "" THEN "" ELSE k

VARIABLES
    \* DisplayStateManager
    tile_state,         \* _tile_state: (row, col) -> (image_path, cache_key)
    viewer_callbacks,   \* _viewer_callbacks, in registration order
    viewer_devices,     \* _viewer_devices, in registration order
    lock,               \* _lock: the thread holding it, or NoThread
    \* the position of each calling thread
    pc,                 \* "idle" | "notify" | "flush" | "device"
    call,               \* the (row, col, image_path, cache_key) being fanned out
    idx,                \* the loop index of set_tile / submit
    snap,               \* submit's copy of _viewer_devices
    \* observations (what the callbacks and device handles were asked to do)
    notified,           \* per viewer: the payloads its callback was invoked with
    flushed,            \* per thread: the handles flushed by its current submit
    regAtSubmit,        \* per thread: _viewer_devices when its submit began
    raisedAt,           \* per thread: loop index of the first raise in its current call, 0 if none
    escaped,            \* per thread: an error propagated to the caller
    lastCall,           \* per slot: the arguments of the most recent set_tile
    steady,             \* viewers registered before the first set_tile, never removed
    callers,            \* threads that have called set_tile
    nops,               \* operations begun so far
    \* the device backends
    tile_queue,         \* per device: _tile_queue, (slot, source) in insertion order
    tile_cache,         \* WebDevice._tile_cache: slot -> image, for connecting clients
    current_tiles,      \* StreamDock293V3Device._current_tiles: slot -> source last written
    native_cache,       \* sources whose *_native.jpg exists on disk
    sdk_device,         \* StreamDock293V3Device.sdk_device is set
    changed_tiles,      \* hardware submit's local changed_tiles, the part still to send
    qidx,               \* web submit's position in _tile_queue.items()
    qsize,              \* the size that iterator expects _tile_queue to have
    result,             \* hardware submit's local result of the last transport write
    \* observations of the transports
    sent,               \* per device and slot: transmissions by the current (or last) submit
    replayed,           \* per slot: transmissions by on_client_connected
    shownKey,           \* per device and slot: cache key of the last successful transmission
    dirty,              \* per device: slots queued since its last submit began
    armed,              \* per device: slots queued between its last two submits
    examined,           \* per device: the queue entries its latest submit has read
    refreshes,          \* sdk_device.refresh() calls of the hardware's latest submit
    \* the hardware read loop
    read_running,       \* _read_running
    device_busy,        \* _device_busy
    key_callback,       \* _key_callback is set
    read_pc,            \* the read loop is about to "read" or to "decode" a frame
    read_result,        \* the loop's local result: the frame read, or None
    dispatched,         \* the callback invocations of the loop's latest iteration
    read_failed,        \* what failed in that iteration: "none", "callback" or "frame"
    read_failures,      \* failures the loop has handled so far
    \* LED managers: the state manager's central one and each device's own
    led_manager,        \* DisplayStateManager.led_manager: NoManager or "central"
    led_created,        \* LEDManager instances created by initialize_led_manager
    led_running,        \* per manager: _running
    background_animation,   \* per manager
    foreground_animation,   \* per manager
    foreground_duration,    \* per manager: None or <<seconds>>
    foreground_start_time,  \* per manager: None or <<time>>
    led_pc,             \* per manager: the loop is about to "tick" or to "show"
    advanced,           \* per manager: the animations its latest tick animated
    now,                \* time.time()
    \* Input manager
    long_press_threshold,   \* _long_press_threshold
    active_presses,     \* _active_presses: key -> press time
    queue,              \* _queue, oldest first
    last_duration,      \* the local `duration` of the latest on_device_key_event
    enqueued,           \* number of events put on the queue so far
    delivered,          \* ids of the events returned to pollers, in order
    poll_pc,            \* per polling thread: "idle" or inside queue.get
    poll_deadline,      \* per polling thread: when its get gives up
    poll_result,        \* per polling thread: what its latest poll_event returned
    async_pc,           \* the scene task: "idle", "loop" or "await"
    end_time,           \* async_poll_event's end_time
    worker_deadline,    \* when the executor worker's get gives up
    async_result,       \* what the latest async_poll_event returned
    orphans,            \* deadlines of workers whose awaiting task was cancelled
    \* Web server
    clients,            \* the clients connected to the socket server
    connecting,         \* the client of the latest handle_connect
    replay_slots,       \* the slots the latest connect's replay emitted
    replay_to,          \* the clients that received those emits
    server_web_device,  \* server._web_device is set
    web_key_callback,   \* WebDevice._key_callback is registered
    inbound,            \* button messages received from clients, oldest first
    web_handled,        \* the message the latest handler run took, or None
    web_calls,          \* the key callback invocations of that handler run
    \* device calls made without the state manager
    direct_call,        \* the latest direct set_tile: <<device, row, col>>, or None
    direct_raised,      \* that call raised ValueError
    \* Runtime
    enable_hardware,    \* StreamToyRuntime.enable_hardware
    enable_web,         \* StreamToyRuntime.enable_web
    devices,            \* StreamToyRuntime.devices
    primary_device,     \* StreamToyRuntime.device, or None
    succeeded,          \* the backends whose initialization ran to its end
    rt_pc,              \* where initialize() is: "init_hw" .. "ready" / "failed"
    requested,          \* scene switches requested so far
    current_scene,      \* the scene of switch n, or NoScene
    scene_running,      \* per scene: its _running flag
    scene_task,         \* _scene_task: the loop task of switch n, or NoTask
    task_state,         \* per loop task: "none", "pending", "running", ...
    task_scene,         \* per loop task: the scene whose main_loop it runs
    switch_pc,          \* per switch coroutine: where it is suspended
    awaiting,           \* per switch coroutine: the task it awaits
    exiting,            \* per switch coroutine: the scene whose on_exit it called
    exited,             \* the scenes whose on_exit has completed
    \* BaseScene's render cache (data/cache/scene_tiles)
    cache_files,        \* the files of CACHE_DIR: path -> [mtime, image]
    cache_clock,        \* the file system's clock
    cache_returned,     \* per cache key: the path _cache_image returned last, or None
    cache_last,         \* the cache key of the last _cache_image call, or None
    cache_hit,          \* whether that call found its file on disk
    cache_calls,        \* _cache_image calls so far
    \* LEDManager's threads and pixel buffer
    loop_pc,            \* per animation-loop thread: "unborn", "check", "tick", "show", "dead"
    led_thread,         \* LEDManager._thread: the thread started last, or NoLoop
    stop_pc,            \* stop() is "idle" or inside its "join"
    pixels,             \* the pixel buffer, one colour per LED
    \* closing the device backends, and the runtime's shutdown
    worker_running,     \* per device: _read_running / _led_update_running
    worker_alive,       \* per device: its read / LED-update thread is alive
    strip_running,      \* per device: led_manager._running
    strip_alive,        \* per device: led_manager._thread is alive
    initialized,        \* per device: _initialized
    sound_manager,      \* per device: sound_manager is set
    close_pc,           \* per device: "new", "open", "join", "led", "ledjoin", "sdk", "closed"
    close_logged,       \* per device: close() caught and logged an error
    close_escaped,      \* per device: close() propagated an error
    shutdown_pc,        \* shutdown(): "idle", "sound", "close", "closing", "done"
    shutdown_list,      \* self.devices as shutdown() iterates it
    shutdown_idx,       \* the position of its for loop
    close_called        \* the devices whose close() shutdown() has called

dsmVars == <<tile_state, viewer_callbacks, viewer_devices, lock>>
thrVars == <<pc, call, idx, snap>>
obsVars == <<notified, flushed, regAtSubmit, raisedAt, escaped, lastCall,
             steady, callers, nops>>
devVars == <<tile_queue, tile_cache, current_tiles, native_cache, sdk_device,
             changed_tiles, qidx, qsize, result>>
wireVars == <<sent, replayed, shownKey, dirty, armed, examined, refreshes>>
coreVars == <<dsmVars, thrVars, obsVars, devVars, wireVars>>
readVars == <<read_running, device_busy, key_callback, read_pc, read_result, dispatched,
              read_failed, read_failures>>
ledVars == <<led_manager, led_created, led_running, background_animation,
             foreground_animation, foreground_duration, foreground_start_time,
             led_pc, advanced, now>>
inputVars == <<long_press_threshold, active_presses, queue, last_duration, enqueued,
               delivered, poll_pc, poll_deadline, poll_result, async_pc,
               end_time, worker_deadline, async_result, orphans>>
clientVars == <<clients, connecting, replay_slots, replay_to>>
buttonVars == <<server_web_device, web_key_callback, inbound, web_handled, web_calls>>
directVars == <<direct_call, direct_raised>>
runtimeVars == <<enable_hardware, enable_web, devices, primary_device, succeeded,
                 rt_pc, requested, current_scene, scene_running, scene_task,
                 task_state, task_scene, switch_pc, awaiting, exiting, exited>>
cacheVars == <<cache_files, cache_clock, cache_returned, cache_last, cache_hit,
               cache_calls>>
stripVars == <<loop_pc, led_thread, stop_pc, pixels>>
closeVars == <<worker_running, worker_alive, strip_running, strip_alive, initialized,
               sound_manager, close_pc, close_logged, close_escaped, shutdown_pc,
               shutdown_list, shutdown_idx, close_called>>
auxVars == <<readVars, ledVars, inputVars, clientVars, buttonVars, directVars,
             runtimeVars, cacheVars, stripVars, closeVars>>

\* what the actions of one component leave alone
readOthers == <<coreVars, ledVars, inputVars, clientVars, buttonVars, directVars,
    runtimeVars, cacheVars, stripVars, closeVars>>
ledOthers == <<coreVars, readVars, inputVars, clientVars, buttonVars, directVars,
    runtimeVars, cacheVars, stripVars, closeVars>>
inputOthers == <<coreVars, readVars, ledVars, clientVars, buttonVars, directVars,
    runtimeVars, cacheVars, stripVars, closeVars>>
clientAuxOthers == <<readVars, ledVars, inputVars, buttonVars, directVars,
    runtimeVars, cacheVars, stripVars, closeVars>>
clientOthers == <<coreVars, clientAuxOthers>>
runtimeOthers == <<coreVars, readVars, ledVars, inputVars, clientVars, buttonVars,
    directVars, cacheVars, stripVars, closeVars>>
directAuxOthers == <<readVars, ledVars, inputVars, clientVars, buttonVars,
    runtimeVars, cacheVars, stripVars, closeVars>>
buttonOthers == <<coreVars, readVars, ledVars, inputVars, clientVars, directVars,
    runtimeVars, cacheVars, stripVars, closeVars>>
cacheOthers == <<coreVars, readVars, ledVars, inputVars, clientVars, buttonVars, directVars, runtimeVars, stripVars, closeVars>>
stripOthers == <<coreVars, readVars, inputVars, clientVars, buttonVars, directVars, runtimeVars, cacheVars, closeVars>>
closeOthers == <<readVars, ledVars, inputVars, clientVars, buttonVars, directVars, runtimeVars, cacheVars, stripVars>>
vars == <<coreVars, auxVars>>

(***************************************************************************)
(* Helpers                                                                 *)
(***************************************************************************)
Range(s) == {s[i] : i \in 1 .. Len(s)}

IsPrefix(s, t) == Len(s) <= Len(t) /\ SubSeq(t, 1, Len(s)) = s

\* list.remove(x): drops the first occurrence
RECURSIVE RemoveFirst(_, _)
RemoveFirst(s, x) ==
    IF s = <<>> THEN <<>>
    ELSE IF Head(s) = x THEN Tail(s)
    ELSE <<Head(s)>> \o RemoveFirst(Tail(s), x)

\* d[k] = v on a dict held as a function
Put(d, k, v) == [x \in DOMAIN d \cup {k} |-> IF x = k THEN v ELSE d[x]]

\* the first position of x in a list
Pos(s, x) == CHOOSE i \in 1 .. Len(s) : s[i] = x /\ \A j \in 1 .. i - 1 : s[j] # x

(***************************************************************************)
(* DisplayStateManager                                                     *)
(***************************************************************************)
\* __init__
InitDSM ==
    /\ tile_state = <<>>
    /\ viewer_callbacks = <<>>
    /\ viewer_devices = <<>>
    /\ lock = NoThread

InitThreads ==
    /\ pc = [t \in Threads |-> "idle"]
    /\ call = [t \in Threads |-> <<>>]
    /\ idx = [t \in Threads |-> 0]
    /\ snap = [t \in Threads |-> <<>>]

InitObs ==
    /\ notified = [v \in AllViewers |-> <<>>]
    /\ flushed = [t \in Threads |-> <<>>]
    /\ regAtSubmit = [t \in Threads |-> <<>>]
    /\ raisedAt = [t \in Threads |-> 0]
    /\ escaped = [t \in Threads |-> FALSE]
    /\ lastCall = <<>>
    /\ steady = {}
    /\ callers = {}
    /\ nops = 0

\* with self._lock: entered only when no thread holds the lock
AcquireNoLock(t) == lock' = lock
Acquire(t) == lock = NoThread /\ lock' = t

\* leaving the with block
Release(t) == lock' = NoThread

\* a critical section that is entered and left within one step
Locked == lock = NoThread /\ lock' = lock

\* register_viewer(callback, device): device=None adds no handle
register_viewer(v, withDevice) ==
    /\ Locked
    /\ nops' = nops + 1
    /\ viewer_callbacks' = Append(viewer_callbacks, v)
    /\ viewer_devices' = IF withDevice THEN Append(viewer_devices, v)
                         ELSE viewer_devices
    /\ steady' = IF callers = {} THEN steady \cup {v} ELSE steady
    /\ UNCHANGED <<tile_state, thrVars, notified, flushed, regAtSubmit, raisedAt,
                   escaped, lastCall, callers>>
    /\ UNCHANGED <<devVars, wireVars, auxVars>>

\* unregister_viewer(callback): the callback list only
unregister_viewer(v) ==
    /\ Locked
    /\ nops' = nops + 1
    /\ v \in Range(viewer_callbacks)
    /\ viewer_callbacks' = RemoveFirst(viewer_callbacks, v)
    /\ steady' = steady \ {v}
    /\ UNCHANGED <<tile_state, viewer_devices, thrVars, notified, flushed,
                   regAtSubmit, raisedAt, escaped, lastCall, callers>>
    /\ UNCHANGED <<devVars, wireVars, auxVars>>

\* self._tile_state[(row, col)] = (image_path, cache_key)
StoreTileFirstWins(st, slot, pair) == IF slot \in DOMAIN st THEN st ELSE Put(st, slot, pair)
StoreTile(st, slot, pair) == Put(st, slot, pair)

\* set_tile up to the first callback: the arguments are normalised, the lock is
\* taken and the slot is overwritten; no coordinate check is made
SetTileBegin(t, row, col, image_path, cache_key) ==
    /\ pc[t] = "idle"
    /\ Acquire(t)
    /\ tile_state' = StoreTile(tile_state, <<row, col>>,
                               <<Path(image_path), KeyOrEmpty(cache_key)>>)
    /\ call' = [call EXCEPT ![t] = <<row, col, Path(image_path), KeyOrEmpty(cache_key)>>]
    /\ idx' = [idx EXCEPT ![t] = 1]
    /\ pc' = [pc EXCEPT ![t] = "notify"]
    /\ raisedAt' = [raisedAt EXCEPT ![t] = 0]
    /\ lastCall' = Put(lastCall, <<row, col>>, <<image_path, cache_key>>)
    /\ callers' = callers \cup {t}
    /\ nops' = nops + 1
    /\ UNCHANGED <<viewer_callbacks, viewer_devices, snap, notified, flushed,
                   regAtSubmit, escaped, steady>>
    /\ UNCHANGED <<devVars, wireVars, auxVars>>

\* except Exception as e: logger.error(...) -- the loop goes on
OnCallbackErrorPropagate(t) ==
    /\ pc' = [pc EXCEPT ![t] = "idle"]
    /\ idx' = [idx EXCEPT ![t] = 0]
    /\ Release(t)
    /\ escaped' = [escaped EXCEPT ![t] = TRUE]
OnCallbackError(t) ==
    /\ pc' = pc
    /\ idx' = [idx EXCEPT ![t] = idx[t] + 1]
    /\ lock' = lock
    /\ escaped' = escaped

OnCallbackReturn(t) ==
    /\ pc' = pc
    /\ idx' = [idx EXCEPT ![t] = idx[t] + 1]
    /\ lock' = lock
    /\ escaped' = escaped

\* one iteration of "for callback in self._viewer_callbacks" on an arbitrary
\* callable (the tests' MockViewerDevice._on_state_tile_update), which may raise
NotifyViewer(t, raises) ==
    /\ pc[t] = "notify"
    /\ idx[t] <= Len(viewer_callbacks)
    /\ LET v == viewer_callbacks[idx[t]] IN
        /\ v \in MockViewers
        /\ notified' = [notified EXCEPT ![v] = Append(@, call[t])]
        /\ IF raises
           THEN /\ raisedAt' = [raisedAt EXCEPT ![t] = IF @ = 0 THEN idx[t] ELSE @]
                /\ OnCallbackError(t)
           ELSE /\ raisedAt' = raisedAt
                /\ OnCallbackReturn(t)
    /\ UNCHANGED <<tile_state, viewer_callbacks, viewer_devices, call, snap,
                   flushed, regAtSubmit, lastCall, steady, callers, nops>>
    /\ UNCHANGED <<devVars, wireVars, auxVars>>

\* the loop is exhausted: the with block is left and set_tile returns
SetTileEnd(t) ==
    /\ pc[t] = "notify"
    /\ idx[t] > Len(viewer_callbacks)
    /\ Release(t)
    /\ pc' = [pc EXCEPT ![t] = "idle"]
    /\ idx' = [idx EXCEPT ![t] = 0]
    /\ call' = [call EXCEPT ![t] = <<>>]
    /\ raisedAt' = [raisedAt EXCEPT ![t] = 0]
    /\ UNCHANGED <<tile_state, viewer_callbacks, viewer_devices, snap, notified,
                   flushed, regAtSubmit, escaped, lastCall, steady, callers, nops>>
    /\ UNCHANGED <<devVars, wireVars, auxVars>>

\* submit: devices = self._viewer_devices.copy() under the lock
SubmitBegin(t) ==
    /\ pc[t] = "idle"
    /\ Locked
    /\ snap' = [snap EXCEPT ![t] = viewer_devices]
    /\ idx' = [idx EXCEPT ![t] = 1]
    /\ pc' = [pc EXCEPT ![t] = "flush"]
    /\ flushed' = [flushed EXCEPT ![t] = <<>>]
    /\ regAtSubmit' = [regAtSubmit EXCEPT ![t] = viewer_devices]
    /\ raisedAt' = [raisedAt EXCEPT ![t] = 0]
    /\ nops' = nops + 1
    /\ UNCHANGED <<tile_state, viewer_callbacks, viewer_devices, call, notified,
                   escaped, lastCall, steady, callers>>
    /\ UNCHANGED <<devVars, wireVars, auxVars>>

\* except Exception as e: logger.error(...) around device.submit_tiles()
OnFlushErrorPropagate(t) ==
    /\ pc' = [pc EXCEPT ![t] = "idle"]
    /\ idx' = [idx EXCEPT ![t] = 0]
    /\ escaped' = [escaped EXCEPT ![t] = TRUE]
OnFlushError(t) ==
    /\ pc' = [pc EXCEPT ![t] = "flush"]
    /\ idx' = [idx EXCEPT ![t] = idx[t] + 1]
    /\ escaped' = escaped

OnFlushReturn(t) ==
    /\ pc' = [pc EXCEPT ![t] = "flush"]
    /\ idx' = [idx EXCEPT ![t] = idx[t] + 1]
    /\ escaped' = escaped

\* one iteration of "for device in devices" on an arbitrary handle (the tests'
\* MockViewerDevice.submit_tiles), which may raise
FlushViewer(t, raises) ==
    /\ pc[t] = "flush"
    /\ idx[t] <= Len(snap[t])
    /\ LET d == snap[t][idx[t]] IN
        /\ d \in MockViewers
        /\ flushed' = [flushed EXCEPT ![t] = Append(@, d)]
        /\ IF raises
           THEN /\ raisedAt' = [raisedAt EXCEPT ![t] = IF @ = 0 THEN idx[t] ELSE @]
                /\ OnFlushError(t)
           ELSE /\ raisedAt' = raisedAt
                /\ OnFlushReturn(t)
    /\ UNCHANGED <<dsmVars, call, snap, notified, regAtSubmit, lastCall, steady,
                   callers, nops>>
    /\ UNCHANGED <<devVars, wireVars, auxVars>>

\* the loop is exhausted: submit returns
SubmitEnd(t) ==
    /\ pc[t] = "flush"
    /\ idx[t] > Len(snap[t])
    /\ pc' = [pc EXCEPT ![t] = "idle"]
    /\ idx' = [idx EXCEPT ![t] = 0]
    /\ snap' = [snap EXCEPT ![t] = <<>>]
    /\ flushed' = [flushed EXCEPT ![t] = <<>>]
    /\ regAtSubmit' = [regAtSubmit EXCEPT ![t] = <<>>]
    /\ raisedAt' = [raisedAt EXCEPT ![t] = 0]
    /\ UNCHANGED <<dsmVars, call, notified, escaped, lastCall, steady, callers, nops>>
    /\ UNCHANGED <<devVars, wireVars, auxVars>>

\* get_tile_state(row, col): self._tile_state.get((row, col))
get_tile_state(row, col) ==
    IF <<row, col>> \in DOMAIN tile_state THEN tile_state[<<row, col>>] ELSE None

\* get_all_tile_state(): self._tile_state.copy()
get_all_tile_state == tile_state

(***************************************************************************)
(* Device backends: the tile queue and its flush                           *)
(***************************************************************************)
\* the one thread scene code runs on (the runtime's event loop)
SceneThreads == {"t1"}

\* return codes of transport.setKeyImgDualDevice; 1 is success
WriteResults == {0, 1}

\* TILE_TO_BUTTON: physical button 1-15 of a tile, top row first
TILE_TO_BUTTON == [s \in Grid |-> s[1] * TILE_COLS + s[2] + 1]

\* what the file system holds for a source
Exists(p) == p # "missing.png"
Decodable(p) == Path(p) \in GoodSources
SourceSize(p) == IF Path(p) = "alt.png" THEN 2 * TILE_SIZE ELSE TILE_SIZE

\* Image.open(path): an image of the file's content and size
Image_open(p) == <<Path(p), SourceSize(p)>>

\* image.resize((TILE_SIZE, TILE_SIZE)) when image.size differs
Resize(image) == IF image[2] # TILE_SIZE THEN <<image[1], TILE_SIZE>> ELSE image

NoTransmissions == [s \in Grid |-> 0]

\* validate_tile_coords(row, col) without the lower bounds
validate_tile_coords_upper(row, col) == row < TILE_ROWS /\ col < TILE_COLS

\* validate_tile_coords(row, col): TRUE when it returns, FALSE when it raises
validate_tile_coords(row, col) == (0 <= row /\ row < TILE_ROWS) /\ (0 <= col /\ col < TILE_COLS)

\* self._tile_queue[(row, col)] = image: a slot already queued keeps its place
QPut(q, slot, item) ==
    IF \E i \in 1 .. Len(q) : q[i][1] = slot
    THEN [i \in 1 .. Len(q) |-> IF q[i][1] = slot THEN <<slot, item>> ELSE q[i]]
    ELSE Append(q, <<slot, item>>)

\* server.emit_tile_update(row, col, image) / one transport write of a slot
emit_tile_update(count, slot) == [count EXCEPT ![slot] = @ + 1]

\* self._tile_cache[(row, col)] = image.copy(), forgetting the other slots
CacheTileOnly(cache, slot, image) == [s \in {slot} |-> image]

\* self._tile_cache[(row, col)] = image.copy()
CacheTile(cache, slot, image) == Put(cache, slot, image)

\* the devices' __init__
InitDevices ==
    /\ tile_queue = [d \in Devices |-> <<>>]
    /\ tile_cache = <<>>
    /\ native_cache = {}
    /\ sdk_device = FALSE
    /\ changed_tiles = <<>>
    /\ qidx = 0
    /\ qsize = 0
    /\ result = 0

\* nothing is displayed by the hardware before its first write
InitDisplayedState == current_tiles = <<>>

InitWire ==
    /\ sent = [d \in Devices |-> NoTransmissions]
    /\ replayed = NoTransmissions
    /\ shownKey = [d \in Devices |-> [s \in Grid |-> NoKey]]
    /\ dirty = [d \in Devices |-> {}]
    /\ armed = [d \in Devices |-> {}]
    /\ examined = [d \in Devices |-> {}]
    /\ refreshes = 0

\* WebDevice.set_tile / StreamDock293V3Device.set_tile(row, col, image):
\* validate, then queue; nothing is sent and nothing displayed changes
set_tile_eager(d, row, col, image) ==
    /\ tile_queue' = tile_queue
    /\ sent' = IF validate_tile_coords(row, col)
               THEN [sent EXCEPT ![d] = emit_tile_update(@, <<row, col>>)]
               ELSE sent
    /\ UNCHANGED <<tile_cache, current_tiles, replayed>>
set_tile(d, row, col, image) ==
    /\ tile_queue' = IF validate_tile_coords(row, col)
                     THEN [tile_queue EXCEPT ![d] = QPut(@, <<row, col>>, image)]
                     ELSE tile_queue
    /\ UNCHANGED <<sent, tile_cache, current_tiles, replayed>>

\* the callback a device registers with the state manager: the update is
\* queued on the device
on_state_tile_update(d, row, col, image_path, cache_key) ==
    set_tile(d, row, col, image_path)

\* one iteration of "for callback in self._viewer_callbacks" on a device's
\* callback; the ValueError of an invalid coordinate is caught by set_tile's
\* except
NotifyDevice(t) ==
    /\ pc[t] = "notify"
    /\ idx[t] <= Len(viewer_callbacks)
    /\ LET d == viewer_callbacks[idx[t]]
           row == call[t][1]
           col == call[t][2]
       IN
        /\ d \in Devices
        /\ on_state_tile_update(d, row, col, call[t][3], call[t][4])
        /\ dirty' = IF validate_tile_coords(row, col)
                    THEN [dirty EXCEPT ![d] = @ \cup {<<row, col>>}]
                    ELSE dirty
        /\ IF ~validate_tile_coords(row, col)
           THEN /\ raisedAt' = [raisedAt EXCEPT ![t] = IF @ = 0 THEN idx[t] ELSE @]
                /\ OnCallbackError(t)
           ELSE /\ raisedAt' = raisedAt
                /\ OnCallbackReturn(t)
    /\ UNCHANGED <<tile_state, viewer_callbacks, viewer_devices, call, snap,
                   notified, flushed, regAtSubmit, lastCall, steady, callers, nops>>
    /\ UNCHANGED <<native_cache, sdk_device, changed_tiles, qidx, qsize, result,
                   shownKey, armed, examined, refreshes>>
    /\ UNCHANGED auxVars

\* the hardware submit reads every queued entry in its filter loop, the web
\* submit reads them one by one in its send loop
FilterReads(d) ==
    IF d = "hw" /\ sdk_device THEN Range(tile_queue["hw"]) ELSE {}

\* a device's submit_tiles(): its submit()
submit_tiles(t, d) ==
    /\ pc[t] = "flush"
    /\ idx[t] <= Len(snap[t])
    /\ snap[t][idx[t]] = d
    /\ flushed' = [flushed EXCEPT ![t] = Append(@, d)]
    /\ sent' = [sent EXCEPT ![d] = NoTransmissions]
    /\ armed' = [armed EXCEPT ![d] = dirty[d]]
    /\ dirty' = [dirty EXCEPT ![d] = {}]
    /\ examined' = [examined EXCEPT ![d] = FilterReads(d)]
    /\ refreshes' = IF d = "hw" THEN 0 ELSE refreshes

\* is_different of the hardware submit's filter loop, for two file paths
is_different(current, slot, image_or_path) ==
    \/ slot \notin DOMAIN current
    \/ Path(image_or_path) # Path(current[slot])

\* changed_tiles: the queued tiles that differ from what is displayed
ChangedTiles(q, current) ==
    SelectSeq(q, LAMBDA e : is_different(current, e[1], e[2]))

\* StreamDock293V3Device.submit up to the send loop
HwSubmitBegin(t) ==
    /\ submit_tiles(t, "hw")
    /\ IF tile_queue["hw"] = <<>>
       THEN /\ OnFlushReturn(t)
            /\ raisedAt' = raisedAt
            /\ UNCHANGED <<tile_queue, changed_tiles>>
       ELSE IF ~sdk_device
       THEN /\ OnFlushError(t)
            /\ raisedAt' = [raisedAt EXCEPT ![t] = IF @ = 0 THEN idx[t] ELSE @]
            /\ UNCHANGED <<tile_queue, changed_tiles>>
       ELSE LET changed == ChangedTiles(tile_queue["hw"], current_tiles) IN
            IF changed = <<>>
            THEN /\ tile_queue' = [tile_queue EXCEPT !["hw"] = <<>>]
                 /\ OnFlushReturn(t)
                 /\ raisedAt' = raisedAt
                 /\ UNCHANGED changed_tiles
            ELSE /\ changed_tiles' = changed
                 /\ pc' = [pc EXCEPT ![t] = "hw_send"]
                 /\ UNCHANGED <<tile_queue, idx, escaped, raisedAt>>
    /\ UNCHANGED <<dsmVars, call, snap, notified, regAtSubmit, lastCall, steady,
                   callers, nops>>
    /\ UNCHANGED <<tile_cache, current_tiles, native_cache, sdk_device, qidx,
                   qsize, result, replayed, shownKey>>
    /\ UNCHANGED auxVars

\* _ensure_native_cached regenerates (and so opens the source) on a cache miss
need_regenerate(source_path) == source_path \notin native_cache

\* if result != 1: warning; else: self._current_tiles[(row, col)] = image_or_path
RecordWriteAlways(current, slot, image_or_path, res) == Put(current, slot, image_or_path)
RecordWrite(current, slot, image_or_path, res) ==
    IF res # 1 THEN current ELSE Put(current, slot, image_or_path)

\* one iteration of the hardware send loop
HwSendTile(t, res) ==
    /\ pc[t] = "hw_send"
    /\ changed_tiles # <<>>
    /\ LET slot == Head(changed_tiles)[1]
           image_or_path == Head(changed_tiles)[2]
       IN
        IF slot \notin DOMAIN TILE_TO_BUTTON \/ ~Exists(image_or_path)
        THEN \* logged, continue
             /\ res = 1
             /\ changed_tiles' = Tail(changed_tiles)
             /\ UNCHANGED <<pc, idx, escaped, raisedAt, native_cache, result,
                            sent, current_tiles, shownKey>>
        ELSE IF need_regenerate(image_or_path) /\ ~Decodable(image_or_path)
        THEN \* Image.open raises out of submit, through the finally
             /\ res = 1
             /\ changed_tiles' = <<>>
             /\ OnFlushError(t)
             /\ raisedAt' = [raisedAt EXCEPT ![t] = IF @ = 0 THEN idx[t] ELSE @]
             /\ UNCHANGED <<native_cache, result, sent, current_tiles, shownKey>>
        ELSE /\ native_cache' = native_cache \cup {image_or_path}
             /\ result' = res
             /\ sent' = [sent EXCEPT !["hw"] = emit_tile_update(@, slot)]
             /\ current_tiles' = RecordWrite(current_tiles, slot, image_or_path, res)
             /\ shownKey' = IF res = 1
                            THEN [shownKey EXCEPT !["hw"][slot] = tile_state[slot][2]]
                            ELSE shownKey
             /\ changed_tiles' = Tail(changed_tiles)
             /\ UNCHANGED <<pc, idx, escaped, raisedAt>>
    /\ UNCHANGED <<dsmVars, call, snap, notified, flushed, regAtSubmit, lastCall,
                   steady, callers, nops>>
    /\ UNCHANGED <<tile_queue, tile_cache, sdk_device, qidx, qsize, replayed, dirty,
                   armed, examined, refreshes>>
    /\ UNCHANGED auxVars

\* after the send loop: the queue is cleared and the device refreshed, without
\* a look at _device_busy
HwSubmitEnd(t) ==
    /\ pc[t] = "hw_send"
    /\ changed_tiles = <<>>
    /\ tile_queue' = [tile_queue EXCEPT !["hw"] = <<>>]
    /\ refreshes' = refreshes + 1
    /\ OnFlushReturn(t)
    /\ UNCHANGED <<dsmVars, call, snap, notified, flushed, regAtSubmit, raisedAt,
                   lastCall, steady, callers, nops>>
    /\ UNCHANGED <<tile_cache, current_tiles, native_cache, sdk_device,
                   changed_tiles, qidx, qsize, result, sent, replayed, shownKey,
                   dirty, armed, examined>>
    /\ UNCHANGED auxVars

\* WebDevice.submit up to the send loop
WebSubmitBegin(t) ==
    /\ submit_tiles(t, "web")
    /\ IF tile_queue["web"] = <<>>
       THEN /\ OnFlushReturn(t)
            /\ UNCHANGED <<qidx, qsize>>
       ELSE /\ qidx' = 1
            /\ qsize' = Len(tile_queue["web"])
            /\ pc' = [pc EXCEPT ![t] = "web_send"]
            /\ UNCHANGED <<idx, escaped>>
    /\ UNCHANGED <<dsmVars, call, snap, notified, regAtSubmit, raisedAt, lastCall,
                   steady, callers, nops>>
    /\ UNCHANGED <<tile_queue, tile_cache, current_tiles, native_cache, sdk_device,
                   changed_tiles, result, replayed, shownKey>>
    /\ UNCHANGED auxVars

\* the dict iterator's check at each step: "dictionary changed size during
\* iteration" (RuntimeError) when an entry was inserted since the loop began
SizeChanged == Len(tile_queue["web"]) # qsize

\* one iteration of "for (row, col), image_or_path in self._tile_queue.items()"
WebSendTile(t) ==
    /\ pc[t] = "web_send"
    /\ SizeChanged \/ qidx <= Len(tile_queue["web"])
    /\ IF SizeChanged
       THEN \* the RuntimeError leaves submit; the queue is not cleared
            /\ qidx' = 0
            /\ qsize' = 0
            /\ OnFlushError(t)
            /\ raisedAt' = [raisedAt EXCEPT ![t] = IF @ = 0 THEN idx[t] ELSE @]
            /\ UNCHANGED <<sent, tile_cache, shownKey, examined>>
       ELSE
       LET slot == tile_queue["web"][qidx][1]
           image_or_path == tile_queue["web"][qidx][2]
       IN
        /\ examined' = [examined EXCEPT !["web"] = @ \cup {tile_queue["web"][qidx]}]
        /\ IF ~Exists(image_or_path) \/ ~Decodable(image_or_path)
           THEN \* Image.open (or the decode in resize/save) raises out of submit
                /\ qidx' = 0
                /\ qsize' = 0
                /\ OnFlushError(t)
                /\ raisedAt' = [raisedAt EXCEPT ![t] = IF @ = 0 THEN idx[t] ELSE @]
                /\ UNCHANGED <<sent, tile_cache, shownKey>>
           ELSE /\ sent' = [sent EXCEPT !["web"] = emit_tile_update(@, slot)]
                /\ tile_cache' = CacheTile(tile_cache, slot, Resize(Image_open(image_or_path)))
                /\ shownKey' = [shownKey EXCEPT !["web"][slot] = tile_state[slot][2]]
                /\ qidx' = qidx + 1
                /\ UNCHANGED <<pc, idx, escaped, raisedAt, qsize>>
    /\ UNCHANGED <<dsmVars, call, snap, notified, flushed, regAtSubmit, lastCall,
                   steady, callers, nops>>
    /\ UNCHANGED <<tile_queue, current_tiles, native_cache, sdk_device,
                   changed_tiles, result, replayed, dirty, armed, refreshes>>
    /\ UNCHANGED auxVars

\* after the send loop: the queue is cleared
WebSubmitEnd(t) ==
    /\ pc[t] = "web_send"
    /\ ~SizeChanged
    /\ qidx > Len(tile_queue["web"])
    /\ tile_queue' = [tile_queue EXCEPT !["web"] = <<>>]
    /\ qidx' = 0
    /\ qsize' = 0
    /\ OnFlushReturn(t)
    /\ UNCHANGED <<dsmVars, call, snap, notified, flushed, regAtSubmit, raisedAt,
                   lastCall, steady, callers, nops>>
    /\ UNCHANGED <<tile_cache, current_tiles, native_cache, sdk_device,
                   changed_tiles, result, wireVars>>
    /\ UNCHANGED auxVars

\* WebDevice.on_client_connected: every cached tile is emitted
ReplayCache ==
    /\ replayed' = [s \in Grid |->
                       IF s \in DOMAIN tile_cache
                       THEN emit_tile_update(replayed, s)[s]
                       ELSE replayed[s]]
    /\ nops' = nops + 1
    /\ UNCHANGED <<dsmVars, thrVars, notified, flushed, regAtSubmit, raisedAt,
                   escaped, lastCall, steady, callers>>
    /\ UNCHANGED <<devVars, sent, shownKey, dirty, armed, examined, refreshes>>

\* handle_connect -> WebDevice.on_client_connected, whoever the client is
on_client_connected ==
    /\ ReplayCache
    /\ UNCHANGED auxVars

(***************************************************************************)
(* Hardware read loop (StreamDock293V3Device._custom_read_loop)            *)
(***************************************************************************)
\* the key value of a frame that carries no button event (0xFF)
NoEventKey == 255

\* frames transport.read_ may return, as (bytes[3], bytes[4], key, status)
FrameKeys == (0 .. 16) \cup {NoEventKey}
\* the status byte: 1 pressed, 0 and 2 released, and one value that is neither
Statuses == {0, 1, 2, 3}
Frames == {0, 1} \X {0, 1} \X FrameKeys \X Statuses

\* the vendor's KEY_MAPPING: rows inverted, top row 1-5 becomes 11-15
KEY_MAPPING ==
    [k \in 1 .. 15 |-> IF k <= 5 THEN k + 10 ELSE IF k <= 10 THEN k ELSE k - 10]

\* CALLBACK_BUTTON_TO_TILE
CALLBACK_BUTTON_TO_TILE_Uninverted ==
    [b \in 1 .. 15 |-> IF b <= 5 THEN <<0, b - 1>>
                       ELSE IF b <= 10 THEN <<1, b - 6>>
                       ELSE <<2, b - 11>>]
CALLBACK_BUTTON_TO_TILE ==
    [b \in 1 .. 15 |-> IF b >= 11 THEN <<0, b - 11>>
                       ELSE IF b >= 6 THEN <<1, b - 6>>
                       ELSE <<2, b - 1>>]

\* StreamDock293V3Device.__init__: no read thread, not busy, no callback
InitRead ==
    /\ read_running = FALSE
    /\ device_busy = FALSE
    /\ key_callback = FALSE
    /\ read_pc = "read"
    /\ read_result = None
    /\ dispatched = <<>>
    /\ read_failed = "none"
    /\ read_failures = 0

\* result = self.sdk_device.transport.read_(13); None: sleep and poll again
ReadFrame(frame) ==
    /\ read_running
    /\ read_pc = "read"
    /\ read_result' = frame
    /\ dispatched' = <<>>
    /\ read_pc' = IF frame = None THEN "read" ELSE "decode"
    /\ read_failed' = "none"
    /\ UNCHANGED <<read_running, device_busy, key_callback, read_failures>>
    /\ UNCHANGED readOthers

\* the callback invocations made for a frame's key and status
DispatchKey(key, status) ==
    IF key # NoEventKey /\ 1 <= key /\ key <= 15
    THEN LET mapped_key == KEY_MAPPING[key]
             is_pressed == (status = 1)
         IN  IF mapped_key \in DOMAIN CALLBACK_BUTTON_TO_TILE
             THEN IF key_callback
                  THEN << <<CALLBACK_BUTTON_TO_TILE[mapped_key][1],
                            CALLBACK_BUTTON_TO_TILE[mapped_key][2],
                            is_pressed>> >>
                  ELSE <<>>
             ELSE <<>>
    ELSE <<>>

\* except Exception as e: logger.error(...) -- the while loop goes on
OnLoopErrorStop(running) == FALSE
OnLoopError(running) == running

\* the rest of the iteration: the ready check, then the button check; the
\* callback may raise, which the try around it catches
DecodeFrame(raises) ==
    /\ read_pc = "decode"
    /\ raises => DispatchKey(read_result[3], read_result[4]) # <<>>
    /\ device_busy' = IF read_result[1] = 0 /\ read_result[2] = 0 /\ device_busy
                      THEN FALSE
                      ELSE device_busy
    /\ dispatched' = DispatchKey(read_result[3], read_result[4])
    /\ read_pc' = "read"
    /\ read_failed' = IF raises THEN "callback" ELSE "none"
    /\ read_failures' = IF raises THEN read_failures + 1 ELSE read_failures
    /\ read_running' = IF raises THEN OnLoopError(read_running) ELSE read_running
    /\ UNCHANGED <<key_callback, read_result>>
    /\ UNCHANGED readOthers

\* transport.read_ raises, or what it returns cannot be unpacked or indexed:
\* the loop's outer except logs, sleeps and goes on
ReadFails ==
    /\ read_running
    /\ read_pc = "read"
    /\ read_result' = None
    /\ dispatched' = <<>>
    /\ read_failed' = "frame"
    /\ read_failures' = read_failures + 1
    /\ read_running' = OnLoopError(read_running)
    /\ UNCHANGED <<device_busy, key_callback, read_pc>>
    /\ UNCHANGED readOthers

\* register_key_callback(callback)
register_key_callback ==
    /\ key_callback' = TRUE
    /\ UNCHANGED <<read_running, device_busy, read_pc, read_result, dispatched,
                   read_failed, read_failures>>
    /\ UNCHANGED readOthers

\* the busy flag is set before a full-screen background write is issued
set_device_busy ==
    /\ device_busy' = TRUE
    /\ UNCHANGED <<read_running, key_callback, read_pc, read_result, dispatched,
                   read_failed, read_failures>>
    /\ UNCHANGED readOthers

\* close(): self._read_running = False
close_read_thread ==
    /\ read_running
    /\ read_running' = FALSE
    /\ UNCHANGED <<device_busy, key_callback, read_pc, read_result, dispatched,
                   read_failed, read_failures>>
    /\ UNCHANGED readOthers

(***************************************************************************)
(* LED manager (led_manager.py) and the LED requests of the state manager  *)
(* and of the device backends                                              *)
(***************************************************************************)
\* the last instant of the clock in a run
MaxTime == 3

\* the central manager, and the one each device constructs for itself
LedManagers == {"central", "hw", "web"}
NoManager == "none"

Animations == {"A", "B"}
NoAnimation == "none"

\* duration: None (one cycle) or seconds
Durations == {None, <<0>>, <<1>>, <<2>>}

\* Python truth of an Optional[float]
Truthy(duration) == duration # None /\ duration[1] # 0

\* LEDManager.__init__, for every manager; DisplayStateManager.led_manager = None
InitLed ==
    /\ led_manager = NoManager
    /\ led_created = 0
    /\ led_running = [m \in LedManagers |-> FALSE]
    /\ background_animation = [m \in LedManagers |-> NoAnimation]
    /\ foreground_animation = [m \in LedManagers |-> NoAnimation]
    /\ foreground_duration = [m \in LedManagers |-> None]
    /\ foreground_start_time = [m \in LedManagers |-> None]
    /\ led_pc = [m \in LedManagers |-> "tick"]
    /\ advanced = [m \in LedManagers |-> {}]
    /\ now = 0

\* LEDManager.set_background_animation(animation), under the manager's lock
set_background_animation(m, animation) ==
    /\ background_animation' = [background_animation EXCEPT ![m] = animation]
    /\ UNCHANGED <<foreground_animation, foreground_duration, foreground_start_time>>

\* LEDManager.run_animation(animation, duration), under the manager's lock
run_animation_both(m, animation, duration) ==
    /\ foreground_animation' = [foreground_animation EXCEPT ![m] = animation]
    /\ foreground_duration' = [foreground_duration EXCEPT ![m] = duration]
    /\ foreground_start_time' = [foreground_start_time EXCEPT ![m] = <<now>>]
    /\ background_animation' = [background_animation EXCEPT ![m] = animation]
run_animation(m, animation, duration) ==
    /\ foreground_animation' = [foreground_animation EXCEPT ![m] = animation]
    /\ foreground_duration' = [foreground_duration EXCEPT ![m] = duration]
    /\ foreground_start_time' = [foreground_start_time EXCEPT ![m] = <<now>>]
    /\ UNCHANGED background_animation

\* DisplayStateManager.initialize_led_manager: created and started once
initialize_led_manager ==
    /\ IF led_manager = NoManager
       THEN /\ led_manager' = "central"
            /\ led_created' = led_created + 1
            /\ led_running' = [led_running EXCEPT !["central"] = TRUE]
       ELSE UNCHANGED <<led_manager, led_created, led_running>>
    /\ UNCHANGED <<background_animation, foreground_animation, foreground_duration,
                   foreground_start_time, led_pc, advanced, now>>
    /\ UNCHANGED ledOthers

\* DisplayStateManager.set_background_led_animation(animation)
set_background_led_animation(animation) ==
    /\ IF led_manager # NoManager
       THEN set_background_animation(led_manager, animation)
       ELSE UNCHANGED <<background_animation, foreground_animation,
                        foreground_duration, foreground_start_time>>
    /\ UNCHANGED <<led_manager, led_created, led_running, led_pc, advanced, now>>
    /\ UNCHANGED ledOthers

\* DisplayStateManager.run_led_animation(animation, duration)
run_led_animation(animation, duration) ==
    /\ IF led_manager # NoManager
       THEN run_animation(led_manager, animation, duration)
       ELSE UNCHANGED <<background_animation, foreground_animation,
                        foreground_duration, foreground_start_time>>
    /\ UNCHANGED <<led_manager, led_created, led_running, led_pc, advanced, now>>
    /\ UNCHANGED ledOthers

\* WebDevice / StreamDock293V3Device.set_background_led_animation(animation):
\* the device's own self.led_manager
device_set_background_led_animation(d, animation) ==
    /\ set_background_animation(d, animation)
    /\ UNCHANGED <<led_manager, led_created, led_running, led_pc, advanced, now>>
    /\ UNCHANGED ledOthers

\* WebDevice / StreamDock293V3Device.run_led_animation(animation, duration)
device_run_led_animation(d, animation, duration) ==
    /\ run_animation(d, animation, duration)
    /\ UNCHANGED <<led_manager, led_created, led_running, led_pc, advanced, now>>
    /\ UNCHANGED ledOthers

\* one pass of _animation_loop under the lock: expiry check, then animate()
LedTick(m) ==
    /\ led_running[m]
    /\ led_pc[m] = "tick"
    /\ IF foreground_animation[m] # NoAnimation
       THEN LET expired ==
                    /\ Truthy(foreground_duration[m])
                    /\ now - foreground_start_time[m][1] >= foreground_duration[m][1]
                remaining == IF expired THEN NoAnimation ELSE foreground_animation[m]
            IN  /\ foreground_animation' = [foreground_animation EXCEPT ![m] = remaining]
                /\ advanced' = [advanced EXCEPT ![m] =
                                   IF remaining # NoAnimation THEN {remaining} ELSE {}]
       ELSE /\ advanced' = [advanced EXCEPT ![m] =
                               IF background_animation[m] # NoAnimation
                               THEN {background_animation[m]}
                               ELSE {}]
            /\ UNCHANGED foreground_animation
    /\ led_pc' = [led_pc EXCEPT ![m] = "show"]
    /\ UNCHANGED <<led_manager, led_created, led_running, background_animation,
                   foreground_duration, foreground_start_time, now>>
    /\ UNCHANGED ledOthers

\* self.pixels.show(); time.sleep(0.05)
LedShow(m) ==
    /\ led_pc[m] = "show"
    /\ led_pc' = [led_pc EXCEPT ![m] = "tick"]
    /\ UNCHANGED <<led_manager, led_created, led_running, background_animation,
                   foreground_animation, foreground_duration, foreground_start_time,
                   advanced, now>>
    /\ UNCHANGED ledOthers

\* the clock moves on
Tock ==
    /\ now' = now + 1
    /\ UNCHANGED <<led_manager, led_created, led_running, background_animation,
                   foreground_animation, foreground_duration, foreground_start_time,
                   led_pc, advanced>>
    /\ UNCHANGED ledOthers

(***************************************************************************)
(* Input manager (input_manager.py)                                        *)
(***************************************************************************)
\* events put on the queue in a run
MaxEvents == 2

InputKeys == {<<0, 0>>, <<2, 4>>}
Thresholds == {0, 1, 2}
PollTimeouts == {0, 1, 2}
Pollers == {"p1"}

\* the executor worker's queue.get(block=True, timeout=0.1), in clock units
WORKER_TIMEOUT == 1

\* InputEvent(row, col, is_pressed, timestamp); id tells the events apart
InputEvent(row, col, is_pressed, timestamp, id) ==
    [row |-> row, col |-> col, is_pressed |-> is_pressed,
     timestamp |-> timestamp, long_press |-> FALSE, id |-> id]

\* long_press_threshold: float = 3.0
DEFAULT_THRESHOLD == 3

\* InputManager.__init__(long_press_threshold)
InitInput(threshold) ==
    /\ long_press_threshold = threshold
    /\ active_presses = <<>>
    /\ queue = <<>>
    /\ last_duration = 0
    /\ enqueued = 0
    /\ delivered = <<>>
    /\ poll_pc = [p \in Pollers |-> "idle"]
    /\ poll_deadline = [p \in Pollers |-> 0]
    /\ poll_result = [p \in Pollers |-> None]
    /\ async_pc = "idle"
    /\ end_time = 0
    /\ worker_deadline = 0
    /\ async_result = None
    /\ orphans = {}

pollVars == <<poll_pc, poll_deadline, poll_result, async_pc, end_time,
              worker_deadline, async_result, orphans>>

\* `not is_pressed and duration >= self._long_press_threshold`, strict
IsLongPressStrict(is_pressed, held, threshold) ==
    ~is_pressed /\ held > threshold

\* `not is_pressed and duration >= self._long_press_threshold`
IsLongPress(is_pressed, held, threshold) ==
    ~is_pressed /\ held >= threshold

\* self._queue.put(event): queue.Queue is first in, first out
QueuePutFront(q, event) == <<event>> \o q
QueuePut(q, event) == Append(q, event)

\* on_device_key_event(row, col, is_pressed)
on_device_key_event(row, col, is_pressed) ==
    LET key == <<row, col>>
        held == IF ~is_pressed /\ key \in DOMAIN active_presses
                THEN now - active_presses[key]
                ELSE 0
        event == InputEvent(row, col, is_pressed, now, enqueued + 1)
    IN  /\ active_presses' =
               IF is_pressed
               THEN Put(active_presses, key, now)
               ELSE [k \in DOMAIN active_presses \ {key} |-> active_presses[k]]
        /\ last_duration' = held
        /\ queue' = QueuePut(queue,
               [event EXCEPT !.long_press =
                                 IsLongPress(is_pressed, held, long_press_threshold)])
        /\ enqueued' = enqueued + 1
        /\ UNCHANGED <<long_press_threshold, delivered, pollVars>>
        /\ UNCHANGED inputOthers

\* set_long_press_threshold(seconds)
set_long_press_threshold(seconds) ==
    /\ long_press_threshold' = seconds
    /\ UNCHANGED <<active_presses, queue, last_duration, enqueued, delivered, pollVars>>
    /\ UNCHANGED inputOthers

\* queue.get(timeout) never raises queue.Empty
QueueEmptyNever(deadline) == FALSE

\* queue.get(timeout) raises queue.Empty: nothing queued and the timeout is over
QueueEmpty(deadline) == queue = <<>> /\ now >= deadline

\* poll_event(timeout): the thread enters self._queue.get(timeout=timeout)
PollStart(p, timeout) ==
    /\ poll_pc[p] = "idle"
    /\ poll_pc' = [poll_pc EXCEPT ![p] = "get"]
    /\ poll_deadline' = [poll_deadline EXCEPT ![p] = now + timeout]
    /\ UNCHANGED <<poll_result, async_pc, end_time, worker_deadline, async_result,
                   orphans>>
    /\ UNCHANGED <<long_press_threshold, active_presses, queue, last_duration, enqueued,
                   delivered>>
    /\ UNCHANGED inputOthers

\* poll_event: the get returns the oldest event
PollGet(p) ==
    /\ poll_pc[p] = "get"
    /\ queue # <<>>
    /\ poll_result' = [poll_result EXCEPT ![p] = <<Head(queue)>>]
    /\ queue' = Tail(queue)
    /\ delivered' = Append(delivered, Head(queue).id)
    /\ poll_pc' = [poll_pc EXCEPT ![p] = "idle"]
    /\ poll_deadline' = [poll_deadline EXCEPT ![p] = 0]
    /\ UNCHANGED <<async_pc, end_time, worker_deadline, async_result,
                   orphans>>
    /\ UNCHANGED <<long_press_threshold, active_presses, last_duration, enqueued>>
    /\ UNCHANGED inputOthers

\* poll_event: except queue.Empty: return None
PollEmpty(p) ==
    /\ poll_pc[p] = "get"
    /\ QueueEmpty(poll_deadline[p])
    /\ poll_result' = [poll_result EXCEPT ![p] = None]
    /\ poll_pc' = [poll_pc EXCEPT ![p] = "idle"]
    /\ poll_deadline' = [poll_deadline EXCEPT ![p] = 0]
    /\ UNCHANGED <<async_pc, end_time, worker_deadline, async_result,
                   orphans>>
    /\ UNCHANGED <<long_press_threshold, active_presses, queue, last_duration, enqueued,
                   delivered>>
    /\ UNCHANGED inputOthers

\* async_poll_event(timeout): end_time = loop.time() + timeout
AsyncStart(timeout) ==
    /\ async_pc = "idle"
    /\ async_pc' = "loop"
    /\ end_time' = now + timeout
    /\ UNCHANGED <<poll_pc, poll_deadline, poll_result, worker_deadline,
                   async_result, orphans>>
    /\ UNCHANGED <<long_press_threshold, active_presses, queue, last_duration, enqueued,
                   delivered>>
    /\ UNCHANGED inputOthers

\* async_poll_event: `while loop.time() < end_time:` hands a get to the
\* executor and awaits it, or falls through to `return None`
AsyncLoop ==
    /\ async_pc = "loop"
    /\ IF now < end_time
       THEN /\ async_pc' = "await"
            /\ worker_deadline' = now + WORKER_TIMEOUT
            /\ UNCHANGED <<async_result, end_time>>
       ELSE /\ async_pc' = "idle"
            /\ async_result' = None
            /\ end_time' = 0
            /\ UNCHANGED worker_deadline
    /\ UNCHANGED <<poll_pc, poll_deadline, poll_result, orphans>>
    /\ UNCHANGED <<long_press_threshold, active_presses, queue, last_duration, enqueued,
                   delivered>>
    /\ UNCHANGED inputOthers

\* async_poll_event: the worker's get returns an event: `return event`
AsyncWorkerGet ==
    /\ async_pc = "await"
    /\ queue # <<>>
    /\ async_result' = <<Head(queue)>>
    /\ queue' = Tail(queue)
    /\ delivered' = Append(delivered, Head(queue).id)
    /\ async_pc' = "idle"
    /\ end_time' = 0
    /\ worker_deadline' = 0
    /\ UNCHANGED <<poll_pc, poll_deadline, poll_result, orphans>>
    /\ UNCHANGED <<long_press_threshold, active_presses, last_duration, enqueued>>
    /\ UNCHANGED inputOthers

\* async_poll_event: the worker's get raises queue.Empty: `continue`
AsyncWorkerEmpty ==
    /\ async_pc = "await"
    /\ QueueEmpty(worker_deadline)
    /\ async_pc' = "loop"
    /\ worker_deadline' = 0
    /\ UNCHANGED <<poll_pc, poll_deadline, poll_result, end_time, async_result,
                   orphans>>
    /\ UNCHANGED <<long_press_threshold, active_presses, queue, last_duration, enqueued,
                   delivered>>
    /\ UNCHANGED inputOthers

\* the scene task is cancelled at its await (runtime._switch_scene_async):
\* the worker thread stays inside its get
AsyncCancel ==
    /\ async_pc = "await"
    /\ async_pc' = "idle"
    /\ orphans' = orphans \cup {worker_deadline}
    /\ end_time' = 0
    /\ worker_deadline' = 0
    /\ UNCHANGED <<poll_pc, poll_deadline, poll_result, async_result>>
    /\ UNCHANGED <<long_press_threshold, active_presses, queue, last_duration, enqueued,
                   delivered>>
    /\ UNCHANGED inputOthers

\* a worker whose task was cancelled: its get returns an event to nobody
OrphanGet(deadline) ==
    /\ deadline \in orphans
    /\ queue # <<>>
    /\ queue' = Tail(queue)
    /\ orphans' = orphans \ {deadline}
    /\ UNCHANGED <<poll_pc, poll_deadline, poll_result, async_pc, end_time,
                   worker_deadline, async_result>>
    /\ UNCHANGED <<long_press_threshold, active_presses, last_duration, enqueued,
                   delivered>>
    /\ UNCHANGED inputOthers

\* a worker whose task was cancelled: its get raises queue.Empty
OrphanEmpty(deadline) ==
    /\ deadline \in orphans
    /\ QueueEmpty(deadline)
    /\ orphans' = orphans \ {deadline}
    /\ UNCHANGED <<poll_pc, poll_deadline, poll_result, async_pc, end_time,
                   worker_deadline, async_result>>
    /\ UNCHANGED <<long_press_threshold, active_presses, queue, last_duration, enqueued,
                   delivered>>
    /\ UNCHANGED inputOthers

(***************************************************************************)
(* Web server (web/server.py): the connected clients                       *)
(***************************************************************************)
Clients == {"c1", "c2", "c3"}
NoClient == "none"

\* no client has connected yet
InitClients ==
    /\ clients = {}
    /\ connecting = NoClient
    /\ replay_slots = {}
    /\ replay_to = {}

\* socketio.emit('tile_update', {...}) with no `to`: every connected client
EmitRecipients(connected, sender) == connected

\* handle_connect for client c: the server has the client connected and
\* WebDevice.on_client_connected emits every cached tile
handle_connect(c) ==
    /\ c \notin clients
    /\ clients' = clients \cup {c}
    /\ connecting' = c
    /\ replay_slots' = DOMAIN tile_cache
    /\ replay_to' = IF DOMAIN tile_cache = {}
                    THEN {}
                    ELSE EmitRecipients(clients', c)
    /\ ReplayCache
    /\ UNCHANGED clientAuxOthers

\* handle_disconnect for client c
handle_disconnect(c) ==
    /\ c \in clients
    /\ clients' = clients \ {c}
    /\ UNCHANGED <<connecting, replay_slots, replay_to>>
    /\ UNCHANGED clientOthers

(***************************************************************************)
(* Web server (web/server.py): inbound button messages                     *)
(***************************************************************************)
\* button messages waiting for their handler in a run
MaxInbound == 2

\* a field of the message's data: absent, or <<value>>
RowFields == {None, <<0>>, <<2>>}
ColFields == {None, <<0>>, <<4>>}
ButtonEvents == {"button_press", "button_release"}
ButtonMessages == [event : ButtonEvents, row : RowFields, col : ColFields]

\* server._web_device = None; WebDevice._key_callback = None
InitButtons ==
    /\ server_web_device = FALSE
    /\ web_key_callback = FALSE
    /\ inbound = <<>>
    /\ web_handled = None
    /\ web_calls = <<>>

\* WebDevice._on_button_event(row, col, is_pressed): the callback invocations
on_button_event(row, col, is_pressed) ==
    IF web_key_callback THEN << <<row, col, is_pressed>> >> ELSE <<>>

\* handle_button_press(data)
handle_button_press(data) ==
    IF data.row = None \/ data.col = None
    THEN <<>>
    ELSE IF server_web_device
         THEN on_button_event(data.row[1], data.col[1], TRUE)
         ELSE <<>>

\* handle_button_release(data), passing True
handle_button_release_pressed(data) == handle_button_press(data)

\* handle_button_release(data)
handle_button_release(data) ==
    IF data.row = None \/ data.col = None
    THEN <<>>
    ELSE IF server_web_device
         THEN on_button_event(data.row[1], data.col[1], FALSE)
         ELSE <<>>

\* a client sends a button message
ClientSend(message) ==
    /\ inbound' = Append(inbound, message)
    /\ UNCHANGED <<server_web_device, web_key_callback, web_handled, web_calls>>
    /\ UNCHANGED buttonOthers

\* the server runs the handler of the oldest message
HandleButton ==
    /\ inbound # <<>>
    /\ inbound' = Tail(inbound)
    /\ web_handled' = <<Head(inbound)>>
    /\ web_calls' = IF Head(inbound).event = "button_press"
                    THEN handle_button_press(Head(inbound))
                    ELSE handle_button_release(Head(inbound))
    /\ UNCHANGED <<server_web_device, web_key_callback>>
    /\ UNCHANGED buttonOthers

\* WebDevice.initialize: server.set_web_device(self)
set_web_device ==
    /\ server_web_device' = TRUE
    /\ UNCHANGED <<web_key_callback, inbound, web_handled, web_calls>>
    /\ UNCHANGED buttonOthers

\* WebDevice.register_key_callback(callback)
web_register_key_callback ==
    /\ web_key_callback' = TRUE
    /\ UNCHANGED <<server_web_device, inbound, web_handled, web_calls>>
    /\ UNCHANGED buttonOthers

(***************************************************************************)
(* Device calls made directly, without the state manager                   *)
(***************************************************************************)
\* tiles queued on the devices in a run of direct calls
MaxQueued == 2

\* coordinates a caller may pass: the grid and one step beyond each edge
CallRows == -1 .. TILE_ROWS
CallCols == -1 .. TILE_COLS

InitDirect ==
    /\ direct_call = None
    /\ direct_raised = FALSE

\* device.set_tile(row, col, image) called on device d
device_set_tile(d, row, col, image) ==
    /\ set_tile(d, row, col, image)
    /\ direct_call' = <<d, row, col>>
    /\ direct_raised' = ~validate_tile_coords(row, col)
    /\ UNCHANGED <<dsmVars, thrVars, obsVars>>
    /\ UNCHANGED <<native_cache, sdk_device, changed_tiles, qidx, qsize, result,
                   shownKey, dirty, armed, examined, refreshes>>
    /\ UNCHANGED directAuxOthers

(***************************************************************************)
(* Runtime (runtime.py): initialize and scene switching                    *)
(***************************************************************************)
\* scene switches requested in a run
MaxSwitches == 3

\* the scene, the loop task and the coroutine of switch n all carry n
SwitchIds == 1 .. MaxSwitches
NoScene == 0
NoTask == 0

\* StreamToyRuntime.__init__(enable_hardware, enable_web)
InitRuntime(hardware, web) ==
    /\ enable_hardware = hardware
    /\ enable_web = web
    /\ devices = <<>>
    /\ primary_device = None
    /\ succeeded = {}
    /\ rt_pc = "init_hw"
    /\ requested = 0
    /\ current_scene = NoScene
    /\ scene_running = [n \in SwitchIds |-> FALSE]
    /\ scene_task = NoTask
    /\ task_state = [n \in SwitchIds |-> "none"]
    /\ task_scene = [n \in SwitchIds |-> NoScene]
    /\ switch_pc = [n \in SwitchIds |-> "none"]
    /\ awaiting = [n \in SwitchIds |-> NoTask]
    /\ exiting = [n \in SwitchIds |-> NoScene]
    /\ exited = {}

sceneVars == <<requested, current_scene, scene_running, scene_task, task_state,
               task_scene, switch_pc, awaiting, exiting, exited>>

\* initialize: the hardware block; ok tells whether its try body ran through
InitializeHardware(ok) ==
    /\ rt_pc = "init_hw"
    /\ IF enable_hardware
       THEN IF ok
            THEN /\ devices' = Append(devices, "hw")
                 /\ succeeded' = succeeded \cup {"hw"}
                 /\ rt_pc' = "init_web"
            ELSE /\ rt_pc' = IF ~enable_web THEN "failed" ELSE "init_web"
                 /\ UNCHANGED <<devices, succeeded>>
       ELSE /\ rt_pc' = "init_web"
            /\ UNCHANGED <<devices, succeeded>>
    /\ UNCHANGED <<enable_hardware, enable_web, primary_device, sceneVars>>
    /\ UNCHANGED runtimeOthers

\* initialize: the web block
InitializeWeb(ok) ==
    /\ rt_pc = "init_web"
    /\ IF enable_web
       THEN IF ok
            THEN /\ devices' = Append(devices, "web")
                 /\ succeeded' = succeeded \cup {"web"}
                 /\ rt_pc' = "verify"
            ELSE /\ rt_pc' = IF ~enable_hardware \/ devices = <<>>
                             THEN "failed"
                             ELSE "verify"
                 /\ UNCHANGED <<devices, succeeded>>
       ELSE /\ rt_pc' = "verify"
            /\ UNCHANGED <<devices, succeeded>>
    /\ UNCHANGED <<enable_hardware, enable_web, primary_device, sceneVars>>
    /\ UNCHANGED runtimeOthers

\* `if not self.devices:` never true
NoDevicesNever(devs) == FALSE

\* `if not self.devices:`
NoDevices(devs) == devs = <<>>

\* initialize: verify at least one device, choose the primary one, return
VerifyDevices ==
    /\ rt_pc = "verify"
    /\ IF NoDevices(devices)
       THEN /\ rt_pc' = "failed"
            /\ UNCHANGED primary_device
       ELSE /\ rt_pc' = "ready"
            /\ primary_device' = IF devices = <<>> THEN None ELSE <<devices[1]>>
    /\ UNCHANGED <<enable_hardware, enable_web, devices, succeeded, sceneVars>>
    /\ UNCHANGED runtimeOthers

initVars == <<enable_hardware, enable_web, devices, primary_device, succeeded, rt_pc>>

\* switch_scene: asyncio.create_task(self._switch_scene_async(...)); the
\* first one is run()'s own call
switch_scene ==
    /\ rt_pc = "ready"
    /\ requested = 0 \/ \E t \in SwitchIds : task_state[t] = "running"
    /\ requested' = requested + 1
    /\ switch_pc' = [switch_pc EXCEPT ![requested + 1] = "start"]
    /\ UNCHANGED <<current_scene, scene_running, scene_task, task_state, task_scene,
                   awaiting, exiting, exited>>
    /\ UNCHANGED initVars
    /\ UNCHANGED runtimeOthers

\* _switch_scene_async up to its first await: the flag is cleared and the
\* loop task cancelled
SwitchStart(s) ==
    /\ switch_pc[s] = "start"
    /\ IF current_scene # NoScene
       THEN /\ scene_running' = [scene_running EXCEPT ![current_scene] = FALSE]
            /\ IF scene_task # NoTask /\ task_state[scene_task] # "done"
               THEN /\ task_state' = [task_state EXCEPT ![scene_task] =
                                         IF @ = "pending" THEN "cancelled_pending"
                                         ELSE IF @ = "running" THEN "unwinding"
                                         ELSE @]
                    /\ awaiting' = [awaiting EXCEPT ![s] = scene_task]
                    /\ switch_pc' = [switch_pc EXCEPT ![s] = "await_task"]
               ELSE /\ switch_pc' = [switch_pc EXCEPT ![s] = "exit"]
                    /\ UNCHANGED <<task_state, awaiting>>
       ELSE /\ switch_pc' = [switch_pc EXCEPT ![s] = "create"]
            /\ UNCHANGED <<scene_running, task_state, awaiting>>
    /\ UNCHANGED <<requested, current_scene, scene_task, task_scene, exiting, exited>>
    /\ UNCHANGED initVars
    /\ UNCHANGED runtimeOthers

\* `await self._scene_task` returns: the task has finished
SwitchAwaited(s) ==
    /\ switch_pc[s] = "await_task"
    /\ task_state[awaiting[s]] = "done"
    /\ switch_pc' = [switch_pc EXCEPT ![s] = "exit"]
    /\ UNCHANGED <<requested, current_scene, scene_running, scene_task, task_state,
                   task_scene, awaiting, exiting, exited>>
    /\ UNCHANGED initVars
    /\ UNCHANGED runtimeOthers

\* `await self.current_scene.on_exit()` is entered
SwitchExit(s) ==
    /\ switch_pc[s] = "exit"
    /\ exiting' = [exiting EXCEPT ![s] = current_scene]
    /\ switch_pc' = [switch_pc EXCEPT ![s] = "exiting"]
    /\ UNCHANGED <<requested, current_scene, scene_running, scene_task, task_state,
                   task_scene, awaiting, exited>>
    /\ UNCHANGED initVars
    /\ UNCHANGED runtimeOthers

\* on_exit has returned (if there was a scene); the new scene is created,
\* flagged running, and its on_enter is entered
SwitchCreate(s) ==
    /\ switch_pc[s] \in {"exiting", "create"}
    /\ exited' = IF switch_pc[s] = "exiting" THEN exited \cup {exiting[s]} ELSE exited
    /\ current_scene' = s
    /\ scene_running' = [scene_running EXCEPT ![s] = TRUE]
    /\ switch_pc' = [switch_pc EXCEPT ![s] = "entering"]
    /\ UNCHANGED <<requested, scene_task, task_state, task_scene, awaiting, exiting>>
    /\ UNCHANGED initVars
    /\ UNCHANGED runtimeOthers

\* on_enter has returned: self._scene_task = asyncio.create_task(_run_scene_loop())
SwitchFinish(s) ==
    /\ switch_pc[s] = "entering"
    /\ scene_task' = s
    /\ task_state' = [task_state EXCEPT ![s] = "pending"]
    /\ switch_pc' = [switch_pc EXCEPT ![s] = "done"]
    /\ UNCHANGED <<requested, current_scene, scene_running, task_scene, awaiting,
                   exiting, exited>>
    /\ UNCHANGED initVars
    /\ UNCHANGED runtimeOthers

\* _run_scene_loop starts: await self.current_scene.main_loop()
TaskStart(t) ==
    /\ task_state[t] = "pending"
    /\ task_state' = [task_state EXCEPT ![t] = "running"]
    /\ task_scene' = [task_scene EXCEPT ![t] = current_scene]
    /\ UNCHANGED <<requested, current_scene, scene_running, scene_task, switch_pc,
                   awaiting, exiting, exited>>
    /\ UNCHANGED initVars
    /\ UNCHANGED runtimeOthers

\* main_loop sees its scene's _running flag cleared and returns
TaskReturn(t) ==
    /\ task_state[t] = "running"
    /\ ~scene_running[task_scene[t]]
    /\ task_state' = [task_state EXCEPT ![t] = "done"]
    /\ UNCHANGED <<requested, current_scene, scene_running, scene_task, task_scene,
                   switch_pc, awaiting, exiting, exited>>
    /\ UNCHANGED initVars
    /\ UNCHANGED runtimeOthers

\* the cancelled task unwinds at its await (CancelledError) and finishes
TaskUnwind(t) ==
    /\ task_state[t] \in {"unwinding", "cancelled_pending"}
    /\ task_state' = [task_state EXCEPT ![t] = "done"]
    /\ UNCHANGED <<requested, current_scene, scene_running, scene_task, task_scene,
                   switch_pc, awaiting, exiting, exited>>
    /\ UNCHANGED initVars
    /\ UNCHANGED runtimeOthers

(***************************************************************************)
(* BaseScene's render cache: _get_cache_path, _is_cached, _cache_image     *)
(***************************************************************************)
MaxCacheCalls == 2
MaxCacheTime == 2
MaxKeyLen == 2

\* cache_key[:30]
PREFIX_LEN == 30

\* the size of the digest space; md5(...).hexdigest()[:12] is abstracted to a
\* deterministic digest over a small space, so that two keys may collide
DigestSpace == 8

\* the characters cache keys are made of: a letter and a separator
Chars == {"a", "|"}

\* cache keys, as sequences of characters
CacheKeys == UNION {[1 .. n -> Chars] : n \in 1 .. MaxKeyLen}

CacheImages == {"red", "blue"}

\* c if c.isalnum() or c in "._-" else "_"
Sanitize(c) == IF c \in {"a", "-"} THEN c ELSE "_"

Ord(c) == CASE c = "a" -> 97 [] c = "-" -> 45 [] c = "|" -> 124

RECURSIVE Digest(_)
Digest(key) ==
    IF key = <<>> THEN 5
    ELSE (Digest(SubSeq(key, 1, Len(key) - 1)) * 31 + Ord(key[Len(key)])) % DigestSpace

Min(a, b) == IF a <= b THEN a ELSE b

\* _get_cache_path: f"{prefix}_{key_hash}.png" under CACHE_DIR
_get_cache_path(cache_key) ==
    <<[i \in 1 .. Min(Len(cache_key), PREFIX_LEN) |-> Sanitize(cache_key[i])],
      Digest(cache_key)>>

\* _is_cached: cache_path.exists()
_is_cached(cache_key) == _get_cache_path(cache_key) \in DOMAIN cache_files

\* if not cache_path.exists()
NeedsSaveAlways(files, cache_path) == TRUE
NeedsSave(files, cache_path) == cache_path \notin DOMAIN files

InitCache ==
    /\ cache_files = <<>>
    /\ cache_clock = 0
    /\ cache_returned = [k \in CacheKeys |-> None]
    /\ cache_last = None
    /\ cache_hit = FALSE
    /\ cache_calls = 0

\* image.save(cache_path, format='PNG'): creates or rewrites the file
Save(files, cache_path, image) ==
    [p \in DOMAIN files \cup {cache_path} |->
        IF p = cache_path THEN [mtime |-> cache_clock, image |-> image]
        ELSE files[p]]

_cache_image(cache_key, image) ==
    LET cache_path == _get_cache_path(cache_key) IN
    /\ cache_files' = IF NeedsSave(cache_files, cache_path)
                      THEN Save(cache_files, cache_path, image)
                      ELSE cache_files
    /\ cache_returned' = [cache_returned EXCEPT ![cache_key] = <<cache_path>>]
    /\ cache_last' = cache_key
    /\ cache_hit' = _is_cached(cache_key)
    /\ cache_calls' = cache_calls + 1
    /\ UNCHANGED <<cache_clock, cacheOthers>>

\* time passes between two calls
CacheTock ==
    /\ cache_clock' = cache_clock + 1
    /\ UNCHANGED <<cache_files, cache_returned, cache_last, cache_hit, cache_calls,
                   cacheOthers>>

(***************************************************************************)
(* LEDManager's loop threads and pixel buffer (led_manager.py): start,     *)
(* stop, _animation_loop, set_all, on the manager "central"                *)
(***************************************************************************)
MaxStarts == 2
NumLeds == 2
MaxStripTime == 2

LoopThreads == 1 .. MaxStarts
NoLoop == 0

\* colours a caller passes to set_all; stop() writes (0, 0, 0)
Black == "black"
Colors == {Black, "red"}

\* LEDManager.__init__: FakeNeoPixel's [(0, 0, 0)] * num_pixels, no thread
InitStrip ==
    /\ loop_pc = [th \in LoopThreads |-> "unborn"]
    /\ led_thread = NoLoop
    /\ stop_pc = "idle"
    /\ pixels = [i \in 1 .. NumLeds |-> Black]

\* pixels.fill(color)
FillFirst(buffer, color) == [buffer EXCEPT ![1] = color]
Fill(buffer, color) == [i \in DOMAIN buffer |-> color]

\* animation.animate(): the animation draws its frame into the buffer
Animate(buffer, animation) == Fill(buffer, animation)

Alive(th) == loop_pc[th] \notin {"unborn", "dead"}

slotVars == <<background_animation, foreground_animation, foreground_duration,
              foreground_start_time>>

\* LEDManager.start()
start ==
    /\ stop_pc = "idle"
    /\ IF led_running["central"]
       THEN UNCHANGED <<led_running, led_thread, loop_pc>>
       ELSE \E th \in LoopThreads :
               /\ loop_pc[th] = "unborn"
               /\ \A other \in LoopThreads : other < th => loop_pc[other] # "unborn"
               /\ led_running' = [led_running EXCEPT !["central"] = TRUE]
               /\ led_thread' = th
               /\ loop_pc' = [loop_pc EXCEPT ![th] = "check"]
    /\ UNCHANGED <<slotVars, led_manager, led_created, led_pc, advanced, now>>
    /\ UNCHANGED <<stop_pc, pixels, stripOthers>>

\* LEDManager.stop() up to self._thread.join(timeout=2)
StopBegin ==
    /\ stop_pc = "idle"
    /\ led_running["central"]
    /\ led_running' = [led_running EXCEPT !["central"] = FALSE]
    /\ stop_pc' = IF led_thread # NoLoop THEN "join" ELSE "idle"
    /\ UNCHANGED <<slotVars, led_manager, led_created, led_pc, advanced, now>>
    /\ UNCHANGED <<loop_pc, led_thread, pixels, stripOthers>>

\* join returns: the thread has exited (timedOut = FALSE), or the two seconds
\* are over while it is still alive; then pixels.fill((0, 0, 0)); pixels.show()
StopJoin(timedOut) ==
    /\ stop_pc = "join"
    /\ timedOut <=> Alive(led_thread)
    /\ pixels' = Fill(pixels, Black)
    /\ stop_pc' = "idle"
    /\ UNCHANGED ledVars
    /\ UNCHANGED <<loop_pc, led_thread, stripOthers>>

\* while self._running
LoopCheck(th) ==
    /\ loop_pc[th] = "check"
    /\ loop_pc' = [loop_pc EXCEPT ![th] = IF led_running["central"] THEN "tick" ELSE "dead"]
    /\ UNCHANGED ledVars
    /\ UNCHANGED <<led_thread, stop_pc, pixels, stripOthers>>

\* the body of the loop under the lock: expiry check, then animate()
LoopTick(th) ==
    /\ loop_pc[th] = "tick"
    /\ LET A == foreground_animation["central"]
           B == background_animation["central"]
           expired ==
               /\ A # NoAnimation
               /\ Truthy(foreground_duration["central"])
               /\ now - foreground_start_time["central"][1]
                      >= foreground_duration["central"][1]
           remaining == IF expired THEN NoAnimation ELSE A
           drawn == IF A # NoAnimation THEN remaining ELSE B
       IN  /\ foreground_animation' =
                  [foreground_animation EXCEPT !["central"] = remaining]
           /\ pixels' = IF drawn # NoAnimation THEN Animate(pixels, drawn) ELSE pixels
    /\ loop_pc' = [loop_pc EXCEPT ![th] = "show"]
    /\ UNCHANGED <<led_manager, led_created, led_running, background_animation,
                   foreground_duration, foreground_start_time, led_pc, advanced, now>>
    /\ UNCHANGED <<led_thread, stop_pc, stripOthers>>

\* self.pixels.show(); time.sleep(0.05)
LoopShow(th) ==
    /\ loop_pc[th] = "show"
    /\ loop_pc' = [loop_pc EXCEPT ![th] = "check"]
    /\ UNCHANGED ledVars
    /\ UNCHANGED <<led_thread, stop_pc, pixels, stripOthers>>

\* LEDManager.set_all(color): pixels.fill(color); pixels.show() under the lock
set_all(color) ==
    /\ pixels' = Fill(pixels, color)
    /\ UNCHANGED ledVars
    /\ UNCHANGED <<loop_pc, led_thread, stop_pc, stripOthers>>

\* LEDManager.set_background_animation(animation) on the manager itself
manager_set_background_animation(animation) ==
    /\ set_background_animation("central", animation)
    /\ UNCHANGED <<led_manager, led_created, led_running, led_pc, advanced, now>>
    /\ UNCHANGED <<stripVars, stripOthers>>

\* LEDManager.run_animation(animation, duration) on the manager itself
manager_run_animation(animation, duration) ==
    /\ run_animation("central", animation, duration)
    /\ UNCHANGED <<led_manager, led_created, led_running, led_pc, advanced, now>>
    /\ UNCHANGED <<stripVars, stripOthers>>

\* the clock moves on
StripTock ==
    /\ now' = now + 1
    /\ UNCHANGED <<led_manager, led_created, led_running, slotVars, led_pc, advanced>>
    /\ UNCHANGED <<stripVars, stripOthers>>

(***************************************************************************)
(* Closing the backends (streamdock293v3_device.py, web_device.py) and the *)
(* runtime's shutdown (runtime.py)                                          *)
(***************************************************************************)
\* what close() and shutdown() leave alone in the display path
closeCore == <<dsmVars, thrVars, obsVars, wireVars, tile_queue, tile_cache,
               current_tiles, native_cache, changed_tiles, qidx, qsize, result>>
deviceFields == <<worker_running, worker_alive, strip_running, strip_alive,
                  initialized, close_pc, close_logged, close_escaped>>
shutdownFields == <<shutdown_pc, shutdown_list, shutdown_idx, close_called>>

\* how far initialize() gets before it raises
InitStages == {"nothing", "sdk", "all"}

InitClose ==
    /\ worker_running = [d \in Devices |-> FALSE]
    /\ worker_alive = [d \in Devices |-> FALSE]
    /\ strip_running = [d \in Devices |-> FALSE]
    /\ strip_alive = [d \in Devices |-> FALSE]
    /\ initialized = [d \in Devices |-> FALSE]
    /\ sound_manager = [d \in Devices |-> FALSE]
    /\ close_pc = [d \in Devices |-> "new"]
    /\ close_logged = [d \in Devices |-> FALSE]
    /\ close_escaped = [d \in Devices |-> FALSE]
    /\ shutdown_pc = "idle"
    /\ shutdown_list = <<>>
    /\ shutdown_idx = 0
    /\ close_called = {}

\* initialize(): the hardware sets sdk_device when it finds the device, both
\* backends start their worker and the LED manager and set _initialized last
initialize(d, reached) ==
    /\ close_pc[d] = "new"
    /\ shutdown_pc = "idle"
    /\ d = "web" => reached # "sdk"
    /\ sdk_device' = IF d = "hw" /\ reached # "nothing" THEN TRUE ELSE sdk_device
    /\ worker_running' = [worker_running EXCEPT ![d] = reached = "all"]
    /\ worker_alive' = [worker_alive EXCEPT ![d] = reached = "all"]
    /\ strip_running' = [strip_running EXCEPT ![d] = reached = "all"]
    /\ strip_alive' = [strip_alive EXCEPT ![d] = reached = "all"]
    /\ initialized' = [initialized EXCEPT ![d] = reached = "all"]
    /\ close_pc' = [close_pc EXCEPT ![d] = "open"]
    /\ UNCHANGED <<sound_manager, close_logged, close_escaped, shutdownFields>>
    /\ UNCHANGED <<closeCore, closeOthers>>

\* initialize_sound()
initialize_sound(d) ==
    /\ shutdown_pc = "idle"
    /\ ~sound_manager[d]
    /\ sound_manager' = [sound_manager EXCEPT ![d] = TRUE]
    /\ UNCHANGED <<deviceFields, shutdownFields, sdk_device>>
    /\ UNCHANGED <<closeCore, closeOthers>>

\* the worker loop sees its flag cleared and returns; a worker blocked in a
\* read or a send never takes this step
WorkerExit(d) ==
    /\ worker_alive[d]
    /\ ~worker_running[d]
    /\ worker_alive' = [worker_alive EXCEPT ![d] = FALSE]
    /\ UNCHANGED <<worker_running, strip_running, strip_alive, initialized,
                   sound_manager, close_pc, close_logged, close_escaped,
                   shutdownFields, sdk_device>>
    /\ UNCHANGED <<closeCore, closeOthers>>

\* the LED manager's animation loop sees _running cleared and returns
StripExit(d) ==
    /\ strip_alive[d]
    /\ ~strip_running[d]
    /\ strip_alive' = [strip_alive EXCEPT ![d] = FALSE]
    /\ UNCHANGED <<worker_running, worker_alive, strip_running, initialized,
                   sound_manager, close_pc, close_logged, close_escaped,
                   shutdownFields, sdk_device>>
    /\ UNCHANGED <<closeCore, closeOthers>>

\* close() up to the join of the worker: the hardware joins only a live read
\* thread whose flag was set, the web backend joins its thread if it has one
CloseStart(d) ==
    /\ close_pc[d] = "open"
    /\ worker_running' = [worker_running EXCEPT ![d] = FALSE]
    /\ close_pc' = [close_pc EXCEPT ![d] =
           IF d = "hw"
           THEN IF worker_running[d] /\ worker_alive[d] THEN "join" ELSE "led"
           ELSE IF initialized[d] THEN "join" ELSE "led"]
    /\ UNCHANGED <<worker_alive, strip_running, strip_alive, initialized,
                   close_logged, close_escaped, sdk_device>>
    /\ UNCHANGED <<closeCore, closeOthers>>

\* close() called on the device
close(d) ==
    /\ shutdown_pc = "idle"
    /\ CloseStart(d)
    /\ UNCHANGED <<sound_manager, shutdownFields>>

\* thread.join(timeout=2) returns when the thread has exited, and after the
\* timeout (timedOut) while it is still alive
JoinForever(alive, timedOut) == ~alive /\ ~timedOut
JoinReturns(alive, timedOut) == timedOut <=> alive

\* the join of the worker returns; a worker still alive is left behind
CloseJoin(d, timedOut) ==
    /\ close_pc[d] = "join"
    /\ JoinReturns(worker_alive[d], timedOut)
    /\ close_pc' = [close_pc EXCEPT ![d] = "led"]
    /\ UNCHANGED <<worker_running, worker_alive, strip_running, strip_alive,
                   initialized, sound_manager, close_logged, close_escaped,
                   shutdownFields, sdk_device>>
    /\ UNCHANGED <<closeCore, closeOthers>>

\* self.led_manager.stop(): returns at once unless _running, else clears it
\* and joins the animation thread
CloseLed(d) ==
    /\ close_pc[d] = "led"
    /\ strip_running' = [strip_running EXCEPT ![d] = FALSE]
    /\ close_pc' = [close_pc EXCEPT ![d] = IF strip_running[d] THEN "ledjoin" ELSE "sdk"]
    /\ UNCHANGED <<worker_running, worker_alive, strip_alive, initialized,
                   sound_manager, close_logged, close_escaped, shutdownFields,
                   sdk_device>>
    /\ UNCHANGED <<closeCore, closeOthers>>

\* an error caught by the try blocks of close() and of stop() is logged
OnCloseErrorRaise(raises) == raises
OnCloseError(raises) == FALSE

\* stop()'s join returns, then pixels.fill((0, 0, 0)); pixels.show() in a try
CloseLedJoin(d, timedOut, raises) ==
    /\ close_pc[d] = "ledjoin"
    /\ JoinReturns(strip_alive[d], timedOut)
    /\ close_logged' = [close_logged EXCEPT ![d] = @ \/ raises]
    /\ close_escaped' = [close_escaped EXCEPT ![d] = @ \/ OnCloseError(raises)]
    /\ close_pc' = [close_pc EXCEPT ![d] = "sdk"]
    /\ UNCHANGED <<worker_running, worker_alive, strip_running, strip_alive,
                   initialized, sound_manager, shutdownFields, sdk_device>>
    /\ UNCHANGED <<closeCore, closeOthers>>

\* the hardware with sdk_device set: clearAllIcon(), refresh() and
\* transport.close() in a try; then _initialized = False in both backends
CloseDevice(d, raises) ==
    /\ close_pc[d] = "sdk"
    /\ raises => d = "hw" /\ sdk_device
    /\ close_logged' = [close_logged EXCEPT ![d] = @ \/ raises]
    /\ close_escaped' = [close_escaped EXCEPT ![d] = @ \/ OnCloseError(raises)]
    /\ initialized' = [initialized EXCEPT ![d] = FALSE]
    /\ close_pc' = [close_pc EXCEPT ![d] = "closed"]
    /\ UNCHANGED <<worker_running, worker_alive, strip_running, strip_alive,
                   sound_manager, shutdownFields, sdk_device>>
    /\ UNCHANGED <<closeCore, closeOthers>>

\* self.devices: the backends whose initialize() succeeded, hardware first
RuntimeDevices ==
    SelectSeq(<<"hw", "web">>, LAMBDA d : initialized[d])

\* shutdown(): self._running = False, then the loop over self.devices
ShutdownBegin ==
    /\ shutdown_pc = "idle"
    /\ \A d \in Devices : close_pc[d] = "open"
    /\ shutdown_list' = RuntimeDevices
    /\ shutdown_idx' = 1
    /\ shutdown_pc' = IF RuntimeDevices = <<>> THEN "done" ELSE "sound"
    /\ UNCHANGED <<deviceFields, sound_manager, close_called, sdk_device>>
    /\ UNCHANGED <<closeCore, closeOthers>>

\* the loop goes on with the next device, or ends
NextDevice ==
    /\ shutdown_idx' = shutdown_idx + 1
    /\ shutdown_pc' = IF shutdown_idx < Len(shutdown_list) THEN "sound" ELSE "done"

\* device.close_sound() inside the try: an error is caught by the except of
\* the loop body, which ends the iteration
ShutdownSound(raises) ==
    /\ shutdown_pc = "sound"
    /\ LET device == shutdown_list[shutdown_idx]
       IN  /\ raises => sound_manager[device]
           /\ IF raises
              THEN NextDevice /\ UNCHANGED sound_manager
              ELSE /\ sound_manager' = [sound_manager EXCEPT ![device] = FALSE]
                   /\ shutdown_pc' = "close"
                   /\ UNCHANGED shutdown_idx
    /\ UNCHANGED <<deviceFields, shutdown_list, close_called, sdk_device>>
    /\ UNCHANGED <<closeCore, closeOthers>>

\* device.close() inside the same try
ShutdownClose ==
    /\ shutdown_pc = "close"
    /\ LET device == shutdown_list[shutdown_idx]
       IN  /\ CloseStart(device)
           /\ close_called' = close_called \cup {device}
    /\ shutdown_pc' = "closing"
    /\ UNCHANGED <<sound_manager, shutdown_list, shutdown_idx>>

\* close() has returned
ShutdownCloseReturns ==
    /\ shutdown_pc = "closing"
    /\ close_pc[shutdown_list[shutdown_idx]] = "closed"
    /\ NextDevice
    /\ UNCHANGED <<deviceFields, sound_manager, shutdown_list, close_called, sdk_device>>
    /\ UNCHANGED <<closeCore, closeOthers>>

\* the server side, and the runtime with its default arguments, as constructed
InitCoreAux == InitRead /\ InitLed /\ InitInput(DEFAULT_THRESHOLD)
InitServer == InitClients /\ InitButtons /\ InitDirect
InitOthers == InitServer /\ InitRuntime(TRUE, TRUE) /\ InitCache /\ InitStrip /\ InitClose

\* the components outside the display path, as constructed
InitAux == InitRead /\ InitLed /\ InitInput(DEFAULT_THRESHOLD) /\ InitOthers

(***************************************************************************)
(* Spec: the state manager with arbitrary viewers, two calling threads     *)
(***************************************************************************)
\* the calls the threads make
CallInputs ==
    { <<0, 0, "cover.png", "k1">>,
      <<0, 0, "./cover.png", NoKey>>,
      <<2, 4, "alt.png", "k2">>,
      <<3, 0, "cover.png", "k1">>,
      <<0, -1, "alt.png", "k2">> }

Init ==
    /\ InitDSM /\ InitThreads /\ InitObs
    /\ InitDevices /\ InitDisplayedState /\ InitWire
    /\ InitAux

Next ==
    \/ \E v \in MockViewers, withDevice \in BOOLEAN :
           /\ nops < MaxOps
           /\ v \notin Range(viewer_callbacks)
           /\ register_viewer(v, withDevice)
    \/ \E v \in MockViewers : nops < MaxOps /\ unregister_viewer(v)
    \/ \E t \in Threads :
        \/ \E c \in CallInputs :
               nops < MaxOps /\ SetTileBegin(t, c[1], c[2], c[3], c[4])
        \/ \E raises \in BOOLEAN : NotifyViewer(t, raises)
        \/ SetTileEnd(t)
        \/ nops < MaxOps /\ SubmitBegin(t)
        \/ \E raises \in BOOLEAN : FlushViewer(t, raises)
        \/ SubmitEnd(t)

Spec == Init /\ [][Next]_vars

(***************************************************************************)
(* SpecDevices: the state manager driving the hardware and the web device  *)
(***************************************************************************)
\* operations (set_tile, submit, client connect) begun in a run of SpecDevices
MaxDevOps == 6

\* the calls scene code makes: a cache key names one source
DeviceCalls ==
    { <<0, 0, "cover.png", "k1">>,
      <<0, 0, "alt.png", "k2">>,
      <<0, 1, "alt.png", "k2">>,
      <<0, 1, "corrupt.png", "k3">>,
      <<0, 1, "missing.png", "k4">>,
      <<3, 0, "cover.png", "k1">> }

\* both devices are constructed and registered, hardware first; the hardware
\* may or may not have been initialize()d
InitDevicesRegistered ==
    /\ tile_state = <<>>
    /\ viewer_callbacks = <<"hw", "web">>
    /\ viewer_devices = <<"hw", "web">>
    /\ lock = NoThread
    /\ InitThreads /\ InitObs
    /\ tile_queue = [d \in Devices |-> <<>>]
    /\ tile_cache = <<>>
    /\ native_cache = {}
    /\ sdk_device \in BOOLEAN
    /\ changed_tiles = <<>>
    /\ qidx = 0
    /\ qsize = 0
    /\ result = 0
    /\ InitDisplayedState /\ InitWire
    /\ InitAux

NextDevices ==
    \/ \E t \in SceneThreads :
        \/ \E c \in DeviceCalls :
               nops < MaxDevOps /\ SetTileBegin(t, c[1], c[2], c[3], c[4])
        \/ NotifyDevice(t)
        \/ SetTileEnd(t)
        \/ nops < MaxDevOps /\ SubmitBegin(t)
        \/ HwSubmitBegin(t)
        \/ \E res \in WriteResults : HwSendTile(t, res)
        \/ HwSubmitEnd(t)
        \/ WebSubmitBegin(t)
        \/ WebSendTile(t)
        \/ WebSubmitEnd(t)
        \/ SubmitEnd(t)
    \/ nops < MaxDevOps /\ on_client_connected

SpecDevices == InitDevicesRegistered /\ [][NextDevices]_vars

(***************************************************************************)
(* Claims checked under Spec                                               *)
(***************************************************************************)
Last(s) == s[Len(s)]

\* the slots the calls of Spec name, valid or not
SlotInputs == {<<c[1], c[2]>> : c \in CallInputs} \cup {<<1, 1>>}

\* C1: every viewer that stays registered from before the first set_tile on
\* receives the same sequence of (row, col, source, cache_key) notifications,
\* whichever threads issue the calls; within one call a viewer registered
\* earlier is notified before one registered later (so at any instant the
\* later viewer's log is a prefix of the earlier one's, at most one behind,
\* and the two are equal whenever no call is in progress).
C1_FanOutOrder ==
    \A v \in steady : \A w \in steady :
        Pos(viewer_callbacks, v) < Pos(viewer_callbacks, w) =>
            /\ IsPrefix(notified[w], notified[v])
            /\ Len(notified[v]) <= Len(notified[w]) + 1
            /\ (lock = NoThread => notified[v] = notified[w])

\* both threads have called set_tile and two viewers hold the same two
\* notifications
C1_Witness ==
    /\ callers = Threads
    /\ \E v \in steady : \E w \in steady :
        /\ v # w
        /\ Len(notified[v]) = 2
        /\ notified[v][1] # notified[v][2]
        /\ notified[w] = notified[v]

\* C2: a callback that raises is caught: set_tile never propagates an error to
\* its caller, and every callback up to the loop index, those after a raising
\* one included, has been invoked with the payload of the call; the call
\* returns only once the index has passed the last registered callback.
C2_CallbackErrorIsolated ==
    \A t \in Threads :
        /\ ~escaped[t]
        /\ pc[t] = "notify" =>
            /\ lock = t
            /\ \A i \in 1 .. Len(viewer_callbacks) :
                   i < idx[t] =>
                       /\ notified[viewer_callbacks[i]] # <<>>
                       /\ Last(notified[viewer_callbacks[i]]) = call[t]

\* the first of two callbacks raised and the second was still invoked
C2_Witness ==
    \E t \in Threads :
        /\ pc[t] = "notify"
        /\ Len(viewer_callbacks) = 2
        /\ raisedAt[t] = 1
        /\ idx[t] = 3
        /\ Last(notified[viewer_callbacks[2]]) = call[t]

\* what get_tile_state is claimed to return for the arguments of a call: the
\* source as a path and the cache key, the empty key when none was given
PairOf(args) == <<Path(args[1]), IF args[2] = NoKey THEN "" ELSE args[2]>>

\* C3: get_tile_state(r, c) is the (source, cache_key) pair of the most recent
\* set_tile of slot (r, c) and None for a slot no set_tile has named; lastCall
\* only ever gains slots, so a slot once written is never None again.
C3_LastWriteWins ==
    \A s \in SlotInputs :
        get_tile_state(s[1], s[2]) =
            IF s \in DOMAIN lastCall THEN PairOf(lastCall[s]) ELSE None

\* slot (0,0) was written with key k1 and then without a key, slot (1,1) never
C3_Witness ==
    /\ get_tile_state(0, 0) = <<"cover.png", "">>
    /\ get_tile_state(1, 1) = None
    /\ \E v \in MockViewers :
        /\ Len(notified[v]) = 2
        /\ notified[v][1] = <<0, 0, "cover.png", "k1">>
        /\ notified[v][2] = <<0, 0, "cover.png", "">>

\* C4: DisplayStateManager.set_tile validates coordinates: a call with row
\* outside [0,3) or col outside [0,5) changes no authoritative slot and
\* notifies no viewer (stated as: no slot outside the grid is ever stored and
\* no viewer is ever notified of one).
C4_InvalidCoordinateRejected ==
    /\ DOMAIN tile_state \subseteq Grid
    /\ \A v \in AllViewers : \A i \in 1 .. Len(notified[v]) :
           <<notified[v][i][1], notified[v][i][2]>> \in Grid

\* C7: submit() calls submit_tiles once on each entry of _viewer_devices as it
\* stood when submit began, in registration order, a raising flush included,
\* and returns only after the last entry, without propagating an error.
C7_SubmitFlushesAll ==
    [][\A t \in Threads :
          pc[t] = "flush" =>
            /\ flushed[t] = SubSeq(regAtSubmit[t], 1, idx[t] - 1)
            /\ flushed'[t] = IF pc'[t] = "flush"
                             THEN SubSeq(regAtSubmit[t], 1, idx'[t] - 1)
                             ELSE <<>>
            /\ pc'[t] # "flush" => flushed[t] = regAtSubmit[t]
            /\ ~escaped'[t]]_vars

\* the flush of the first of two handles raised and the second was flushed
C7_Witness ==
    \E t \in Threads :
        /\ pc[t] = "flush"
        /\ Len(regAtSubmit[t]) = 2
        /\ regAtSubmit[t][1] # regAtSubmit[t][2]
        /\ raisedAt[t] = 1
        /\ flushed[t] = regAtSubmit[t]

(***************************************************************************)
(* Claims checked under SpecDevices                                        *)
(***************************************************************************)
\* positions inside a device's send loop
SendStates == {"hw_send", "web_send"}

\* a device submit is being executed
InSubmit == \E t \in Threads : pc[t] \in SendStates

\* dict.get(slot) of a displayed-state dict: None, or the one value held
Displayed(d, slot) == IF slot \in DOMAIN d THEN <<d[slot]>> ELSE None

\* a source that exists and decodes
Readable(p) == Exists(p) /\ Decodable(p)

\* C5: one submit transmits a slot at most once per device however often the
\* slot was set, and a submit transmits nothing for a slot that no set_tile
\* named since the previous submit.
C5_SubmitTransmitsOnce ==
    \A d \in Devices : \A s \in Grid :
        /\ sent[d][s] <= 1
        /\ sent[d][s] > 0 => s \in armed[d]

\* C6: a slot set again with the cache key it was last transmitted with is
\* dropped by the next submit: no device transmits a slot whose queued key
\* equals the key of its last successful transmission of that slot.
C6_SameKeyNotResent ==
    [][\A d \in Devices : \A s \in Grid :
          (/\ sent'[d][s] > sent[d][s]
           /\ s \in armed[d]
           /\ tile_state[s][2] # "")
          => shownKey[d][s] # tile_state[s][2]]_vars

\* C8 as claimed: tiles are transmitted only while a submit is being executed,
\* at no other point, and a set_tile leaves the reconnect cache, the hardware
\* Displayed-State and the transports alone.
C8_TransmitOnlyInSubmit ==
    [][/\ \A d \in Devices : \A s \in Grid : sent'[d][s] > sent[d][s] => InSubmit
       /\ \A s \in Grid : replayed'[s] = replayed[s]
       /\ (\E t \in Threads : pc[t] = "notify" \/ pc'[t] = "notify")
              => UNCHANGED <<tile_cache, current_tiles, sent>>]_vars

\* C8 (amended): tiles are transmitted only while a submit is being executed,
\* except that a connecting client is sent the tiles of the reconnect cache,
\* which changes no queue, cache or Displayed-State; a set_tile leaves the
\* reconnect cache, the hardware Displayed-State and the transports alone.
C8_TransmitInSubmitOrReplay ==
    [][/\ \A d \in Devices : \A s \in Grid : sent'[d][s] > sent[d][s] => InSubmit
       /\ \A s \in Grid :
              replayed'[s] # replayed[s] =>
                  /\ s \in DOMAIN tile_cache
                  /\ replayed'[s] = replayed[s] + 1
                  /\ UNCHANGED <<tile_queue, tile_cache, current_tiles, sent>>
       /\ (\E t \in Threads : pc[t] = "notify" \/ pc'[t] = "notify")
              => UNCHANGED <<tile_cache, current_tiles, sent>>]_vars

\* slot (0,0) was transmitted by a submit and replayed to a client, and a later
\* set_tile of slot (0,1) is queued, not sent and not cached
C8_Witness ==
    /\ \A t \in Threads : pc[t] = "idle"
    /\ sent["web"][<<0, 0>>] = 1
    /\ replayed[<<0, 0>>] = 1
    /\ tile_queue["web"] = << <<<<0, 1>>, "alt.png">> >>
    /\ DOMAIN tile_cache = {<<0, 0>>}
    /\ sent["web"][<<0, 1>>] = 0

\* C9: in a hardware submit the Displayed-State of a slot changes only in the
\* step that writes that slot, and only when the write returned success, to
\* the source just written; a failed write leaves the slot's Displayed-State
\* as it was and the send loop goes on with the rest of the batch.
C9_DisplayedStateFollowsWrite ==
    [][\A s \in Grid :
          LET wrote == sent'["hw"][s] > sent["hw"][s] IN
            /\ (wrote /\ result' = 1) =>
                   /\ Head(changed_tiles)[1] = s
                   /\ Displayed(current_tiles', s) = <<Head(changed_tiles)[2]>>
            /\ (wrote /\ result' # 1) =>
                   /\ Displayed(current_tiles', s) = Displayed(current_tiles, s)
                   /\ changed_tiles' = Tail(changed_tiles)
                   /\ pc' = pc
            /\ ~wrote =>
                   Displayed(current_tiles', s) = Displayed(current_tiles, s)]_vars

\* in one batch the write of slot (0,0) failed and the write of slot (0,1)
\* then succeeded
C9_Witness ==
    /\ \E t \in Threads : pc[t] = "hw_send"
    /\ sent["hw"][<<0, 0>>] = 1
    /\ sent["hw"][<<0, 1>>] = 1
    /\ result = 1
    /\ Displayed(current_tiles, <<0, 0>>) = None
    /\ Displayed(current_tiles, <<0, 1>>) = <<"alt.png">>

\* C10: when a device submit is over, every queued tile with a readable source
\* has been transmitted by it (or, on the hardware, was dropped as already
\* displayed) and no tile with an unreadable source has: an unreadable source
\* costs only its own tile.
C10_DecodeFailureSkipsOnlyThatTile ==
    [][\A t \in Threads :
          (pc[t] \in SendStates /\ pc'[t] \notin SendStates) =>
            LET d == IF pc[t] = "hw_send" THEN "hw" ELSE "web" IN
              \A i \in 1 .. Len(tile_queue[d]) :
                LET slot == tile_queue[d][i][1]
                    image_or_path == tile_queue[d][i][2]
                IN  IF Readable(image_or_path)
                    THEN \/ sent'[d][slot] >= 1
                         \/ d = "hw" /\ ~is_different(current_tiles, slot, image_or_path)
                    ELSE sent'[d][slot] = 0]_vars

(***************************************************************************)
(* SpecRead: the hardware read loop                                        *)
(***************************************************************************)
\* after initialize(): the read thread runs
InitReadLoop ==
    /\ InitDSM /\ InitThreads /\ InitObs
    /\ InitDevices /\ InitDisplayedState /\ InitWire
    /\ read_running = TRUE
    /\ device_busy = FALSE
    /\ key_callback = FALSE
    /\ read_pc = "read"
    /\ read_result = None
    /\ dispatched = <<>>
    /\ read_failed = "none"
    /\ read_failures = 0
    /\ InitLed /\ InitInput(DEFAULT_THRESHOLD) /\ InitOthers

MaxFailures == 1

NextRead ==
    \/ \E frame \in Frames \cup {None} : ReadFrame(frame)
    \/ \E raises \in BOOLEAN :
           (raises => read_failures < MaxFailures) /\ DecodeFrame(raises)
    \/ read_failures < MaxFailures /\ ReadFails
    \/ register_key_callback
    \/ set_device_busy
    \/ close_read_thread

SpecRead == InitReadLoop /\ [][NextRead]_vars

\* the loop is finishing an iteration on a frame
Decoding == read_pc = "decode" /\ read_pc' = "read"

\* C11: a frame with bytes [3] and [4] both zero that is read while busy
\* clears busy and dispatches no button callback, and no frame both clears
\* busy and dispatches a callback.
C11_AckOrButtonNeverBoth ==
    [][Decoding =>
          /\ (read_result[1] = 0 /\ read_result[2] = 0 /\ device_busy)
                 => (~device_busy' /\ dispatched' = <<>>)
          /\ ~(device_busy /\ ~device_busy' /\ dispatched' # <<>>)]_vars

\* the tile the claim gives for a post-remap button index
TileOfButton(b) ==
    <<IF b \in 11 .. 15 THEN 0 ELSE IF b \in 6 .. 10 THEN 1 ELSE 2, (b - 1) % 5>>

\* C12: with a callback registered, a frame whose key is a button (1..15, not
\* the no-event value) leads to exactly one callback invocation, with the tile
\* of the post-remap index b (row 0 for 11..15, row 1 for 6..10, row 2 for
\* 1..5, col (b-1) mod 5) and pressed exactly for status 1; any other frame
\* leads to none.
C12_ButtonFrameDispatch ==
    [][Decoding =>
          LET key == read_result[3] IN
            IF key \in 1 .. 15
            THEN key_callback =>
                     dispatched' = << <<TileOfButton(KEY_MAPPING[key])[1],
                                        TileOfButton(KEY_MAPPING[key])[2],
                                        read_result[4] = 1>> >>
            ELSE dispatched' = <<>>]_vars

\* raw key 5 (post-remap 15) was pressed and dispatched as tile (0,4)
C12_Witness ==
    /\ read_pc = "read"
    /\ read_result # None
    /\ read_result[3] = 5
    /\ read_result[4] = 1
    /\ dispatched = << <<0, 4, TRUE>> >>

(***************************************************************************)
(* SpecLed: the central LED manager's animation loop against the clock     *)
(***************************************************************************)
InitLedLoop ==
    /\ InitDSM /\ InitThreads /\ InitObs
    /\ InitDevices /\ InitDisplayedState /\ InitWire
    /\ InitRead /\ InitLed /\ InitInput(DEFAULT_THRESHOLD) /\ InitOthers

NextLed ==
    \/ initialize_led_manager
    \/ \E a \in Animations : set_background_led_animation(a)
    \/ \E a \in Animations, d \in Durations : run_led_animation(a, d)
    \/ LedTick("central")
    \/ LedShow("central")
    \/ now < MaxTime /\ Tock

SpecLed == InitLedLoop /\ [][NextLed]_vars

\* a tick of manager m
Ticking(m) == led_pc[m] = "tick" /\ led_pc'[m] = "show"

\* C13: with foreground A of duration d > 0 and background B set, a tick
\* with now - start < d advances A and not B, a tick at or after the end of
\* the window advances B and not A (also once the foreground has been
\* cleared), and no tick advances two animations.
C13_ForegroundThenBackground ==
    [][Ticking("central") =>
          LET A == foreground_animation["central"]
              B == background_animation["central"]
              d == foreground_duration["central"]
          IN  /\ Cardinality(advanced'["central"]) <= 1
              /\ (A # NoAnimation /\ B # NoAnimation /\ A # B /\ Truthy(d)) =>
                     IF now - foreground_start_time["central"][1] < d[1]
                     THEN advanced'["central"] = {A}
                     ELSE advanced'["central"] = {B}
              /\ (A = NoAnimation /\ B # NoAnimation) =>
                     advanced'["central"] = {B}]_vars

(***************************************************************************)
(* SpecLedShared: LED requests on the state manager and on the devices     *)
(***************************************************************************)
NextLedShared ==
    \/ initialize_led_manager
    \/ \E a \in Animations : set_background_led_animation(a)
    \/ \E a \in Animations, d \in Durations : run_led_animation(a, d)
    \/ \E dev \in Devices, a \in Animations :
           device_set_background_led_animation(dev, a)
    \/ \E dev \in Devices, a \in Animations, d \in Durations :
           device_run_led_animation(dev, a, d)

SpecLedShared == InitLedLoop /\ [][NextLedShared]_vars

\* C14: LED requests, on the state manager or on a device, change the slots
\* of the state manager's one led_manager and of no other manager, and
\* initialize_led_manager never creates a second instance.
C14_OneSharedLedManager ==
    /\ led_created <= 1
    /\ \A m \in LedManagers \ {"central"} :
        /\ background_animation[m] = NoAnimation
        /\ foreground_animation[m] = NoAnimation

(***************************************************************************)
(* SpecInput: key events and the threshold against the clock               *)
(***************************************************************************)
InitInputManager ==
    /\ InitDSM /\ InitThreads /\ InitObs
    /\ InitDevices /\ InitDisplayedState /\ InitWire
    /\ InitRead /\ InitLed
    /\ \E threshold \in Thresholds : InitInput(threshold)
    /\ InitOthers

NextInput ==
    \/ /\ enqueued < MaxEvents
       /\ \E key \in InputKeys, is_pressed \in BOOLEAN :
              on_device_key_event(key[1], key[2], is_pressed)
    \/ \E seconds \in Thresholds : set_long_press_threshold(seconds)
    \/ now < MaxTime /\ Tock

SpecInput == InitInputManager /\ [][NextInput]_vars

\* the step puts an event on the queue
Enqueuing == enqueued' = enqueued + 1

\* C15: the release of a key whose press was recorded at t0, reported at
\* t0 + D, is queued with long_press = TRUE exactly when D is at least the
\* configured threshold.
C15_LongPressIffHeldThreshold ==
    [][Enqueuing =>
          LET event == Last(queue')
              key == <<event.row, event.col>>
          IN  (~event.is_pressed /\ key \in DOMAIN active_presses) =>
                  (event.long_press <=>
                      now - active_presses[key] >= long_press_threshold)]_vars

\* a release held exactly the (positive) threshold is queued as a long press
C15_Witness ==
    /\ queue # <<>>
    /\ ~Last(queue).is_pressed
    /\ Last(queue).long_press
    /\ last_duration = long_press_threshold
    /\ last_duration > 0

\* C16: an event queued with long_press = TRUE is a release whose press was
\* recorded and held at least the threshold in force.
C16_LongPressOnlyOnHeldRelease ==
    [][Enqueuing =>
          LET event == Last(queue')
              key == <<event.row, event.col>>
          IN  event.long_press =>
                  /\ ~event.is_pressed
                  /\ key \in DOMAIN active_presses
                  /\ now - active_presses[key] >= long_press_threshold]_vars

(***************************************************************************)
(* SpecPoll: key events against concurrent pollers and scene cancellation  *)
(***************************************************************************)
\* runtime.py: self.input_manager = InputManager()
InitPoll ==
    /\ InitDSM /\ InitThreads /\ InitObs
    /\ InitDevices /\ InitDisplayedState /\ InitWire
    /\ InitRead /\ InitLed /\ InitInput(DEFAULT_THRESHOLD) /\ InitOthers

NextPoll ==
    \/ /\ enqueued < MaxEvents
       /\ \E is_pressed \in BOOLEAN : on_device_key_event(0, 0, is_pressed)
    \/ \E p \in Pollers, timeout \in PollTimeouts :
           now + timeout <= MaxTime /\ PollStart(p, timeout)
    \/ \E p \in Pollers : PollGet(p)
    \/ \E p \in Pollers : PollEmpty(p)
    \/ \E timeout \in PollTimeouts : now + timeout <= MaxTime /\ AsyncStart(timeout)
    \/ AsyncLoop
    \/ AsyncWorkerGet
    \/ AsyncWorkerEmpty
    \/ AsyncCancel
    \/ \E deadline \in orphans : OrphanGet(deadline)
    \/ \E deadline \in orphans : OrphanEmpty(deadline)
    \/ now < MaxTime /\ Tock

SpecPoll == InitPoll /\ [][NextPoll]_vars

\* how often id occurs in a sequence of ids
Occurrences(ids, id) == Cardinality({i \in DOMAIN ids : ids[i] = id})

\* C17: every event put on the queue is either still queued or was returned
\* by exactly one poll_event / async_poll_event call.
C17_ConsumedExactlyOnce ==
    \A id \in 1 .. enqueued :
        Occurrences([i \in DOMAIN queue |-> queue[i].id], id)
            + Occurrences(delivered, id) = 1

(***************************************************************************)
(* SpecPollIdle: pollers on an empty queue with no producer                *)
(***************************************************************************)
NextPollIdle ==
    \/ \E p \in Pollers, timeout \in PollTimeouts :
           now + timeout <= MaxTime /\ PollStart(p, timeout)
    \/ \E p \in Pollers : PollEmpty(p)
    \/ \E timeout \in PollTimeouts : now + timeout <= MaxTime /\ AsyncStart(timeout)
    \/ AsyncLoop
    \/ AsyncWorkerEmpty
    \/ now < MaxTime /\ Tock

\* time passes, and every thread or task inside a call keeps running
SpecPollIdle ==
    /\ InitPoll
    /\ [][NextPollIdle]_vars
    /\ WF_vars(now < MaxTime /\ Tock)
    /\ \A p \in Pollers : WF_vars(PollEmpty(p))
    /\ WF_vars(AsyncLoop)
    /\ WF_vars(AsyncWorkerEmpty)

\* C18: on an empty queue with no producer, every poll_event(timeout) and
\* every async_poll_event(timeout) that was called returns, and returns None.
C18_PollReturnsNoEvent ==
    /\ \A p \in Pollers :
           (poll_pc[p] = "get") ~> (poll_pc[p] = "idle" /\ poll_result[p] = None)
    /\ (async_pc # "idle") ~> (async_pc = "idle" /\ async_result = None)

\* both kinds of poller are waiting on the empty queue, their timeouts ahead
C18_Witness ==
    /\ queue = <<>>
    /\ poll_pc["p1"] = "get" /\ now < poll_deadline["p1"]
    /\ async_pc = "await" /\ now < end_time

(***************************************************************************)
(* Claims about the web device's reconnect cache, under SpecDevices        *)
(***************************************************************************)
\* the step transmits slot from a WebDevice.submit
WebTransmits(slot) == sent'["web"][slot] = sent["web"][slot] + 1

\* C19: a step in which WebDevice.submit transmits a slot leaves the image it
\* transmitted in that slot's cache entry; every other step leaves every
\* cache entry as it was, and no entry is ever removed.
C19_CacheHoldsLastTransmitted ==
    [][/\ DOMAIN tile_cache \subseteq DOMAIN tile_cache'
       /\ \A slot \in Grid :
              IF WebTransmits(slot)
              THEN Displayed(tile_cache', slot) =
                       <<Resize(Image_open(tile_queue["web"][qidx][2]))>>
              ELSE Displayed(tile_cache', slot) = Displayed(tile_cache, slot)]_vars

\* the latest submit transmitted slot (0, 0) only, resized; the entry of
\* slot (0, 1), cached by an earlier submit, is still there
C19_Witness ==
    /\ pc["t1"] = "idle"
    /\ sent["web"][<<0, 0>>] = 1
    /\ sent["web"][<<0, 1>>] = 0
    /\ <<0, 1>> \in DOMAIN tile_cache
    /\ Displayed(tile_cache, <<0, 0>>) = <<<<"alt.png", TILE_SIZE>>>>
    /\ shownKey["web"][<<0, 1>>] # NoKey

(***************************************************************************)
(* SpecClients: clients connecting to a web device that has submitted      *)
(***************************************************************************)
\* connects begun in a run of SpecClients
MaxConnects == 4

\* reconnect caches left by earlier WebDevice.set_tile / submit calls
Caches ==
    { <<>>,
      [s \in {<<0, 0>>} |-> <<"cover.png", TILE_SIZE>>],
      [s \in {<<0, 0>>, <<0, 1>>} |-> <<"alt.png", TILE_SIZE>>] }

InitWebServing ==
    /\ InitDSM /\ InitThreads /\ InitObs
    /\ tile_queue = [d \in Devices |-> <<>>]
    /\ tile_cache \in Caches
    /\ native_cache = {}
    /\ sdk_device = FALSE
    /\ changed_tiles = <<>>
    /\ qidx = 0
    /\ qsize = 0
    /\ result = 0
    /\ InitDisplayedState /\ InitWire
    /\ InitAux

NextClients ==
    \/ \E c \in Clients : nops < MaxConnects /\ handle_connect(c)
    \/ \E c \in Clients : handle_disconnect(c)

SpecClients == InitWebServing /\ [][NextClients]_vars

\* C20: the replay of a connect emits every entry of the reconnect cache,
\* and the connecting client is the only one that receives those emits.
C20_ReplayToConnectingClientOnly ==
    connecting # NoClient =>
        /\ replay_slots = DOMAIN tile_cache
        /\ replay_slots # {} => replay_to = {connecting}

(***************************************************************************)
(* SpecButtons: clients sending button messages to the web server          *)
(***************************************************************************)
InitWebButtons ==
    /\ InitDSM /\ InitThreads /\ InitObs
    /\ InitDevices /\ InitDisplayedState /\ InitWire
    /\ InitAux

NextButtons ==
    \/ \E message \in ButtonMessages :
           Len(inbound) < MaxInbound /\ ClientSend(message)
    \/ HandleButton
    \/ set_web_device
    \/ web_register_key_callback

SpecButtons == InitWebButtons /\ [][NextButtons]_vars

\* C21: with the web device set and a callback registered, the handler of a
\* button message that carries row and col takes the oldest message and
\* invokes the callback exactly once, with (row, col, True) for button_press
\* and (row, col, False) for button_release.
C21_ButtonMessageOneCallback ==
    [][(/\ inbound # <<>>
        /\ inbound' = Tail(inbound)
        /\ server_web_device /\ web_key_callback
        /\ Head(inbound).row # None /\ Head(inbound).col # None) =>
          /\ web_handled' = <<Head(inbound)>>
          /\ web_calls' = << <<Head(inbound).row[1], Head(inbound).col[1],
                               Head(inbound).event = "button_press">> >>]_vars

\* a release of (2, 4) was handled while a press was still waiting behind it
C21_Witness ==
    /\ web_handled = <<[event |-> "button_release", row |-> <<2>>, col |-> <<4>>]>>
    /\ web_calls = << <<2, 4, FALSE>> >>
    /\ inbound # <<>>
    /\ Head(inbound).event = "button_press"

(***************************************************************************)
(* SpecSetTile: set_tile called on the devices with any coordinates        *)
(***************************************************************************)
NextSetTile ==
    \E d \in Devices, row \in CallRows, col \in CallCols :
        /\ Len(tile_queue["hw"]) + Len(tile_queue["web"]) < MaxQueued
        /\ device_set_tile(d, row, col, "cover.png")

SpecSetTile == InitWebButtons /\ [][NextSetTile]_vars

\* C22: a device's set_tile with row in 0..2 and col in 0..4 returns with
\* the slot queued on that device; with any other coordinates it raises and
\* leaves the queues as they were.
C22_SetTileValidatesCoordinates ==
    [][direct_call' # None =>
          LET d == direct_call'[1]
              row == direct_call'[2]
              col == direct_call'[3]
          IN  IF row \in 0 .. 2 /\ col \in 0 .. 4
              THEN /\ ~direct_raised'
                   /\ \E i \in 1 .. Len(tile_queue'[d]) :
                          tile_queue'[d][i] = << <<row, col>>, "cover.png" >>
                   /\ \A e \in Devices \ {d} : tile_queue'[e] = tile_queue[e]
              ELSE /\ direct_raised'
                   /\ tile_queue' = tile_queue]_vars

\* a negative row was refused on a device with a tile queued
C22_Witness ==
    /\ direct_call = <<"web", -1, 0>>
    /\ direct_raised
    /\ tile_queue["web"] # <<>>

(***************************************************************************)
(* SpecRuntime: initialize, then scene switches on the event loop          *)
(***************************************************************************)
InitRuntimeStart ==
    /\ InitDSM /\ InitThreads /\ InitObs
    /\ InitDevices /\ InitDisplayedState /\ InitWire
    /\ InitCoreAux /\ InitServer /\ InitCache /\ InitStrip /\ InitClose
    /\ \E hardware \in BOOLEAN, web \in BOOLEAN : InitRuntime(hardware, web)

NextRuntime ==
    \/ \E ok \in BOOLEAN : InitializeHardware(ok)
    \/ \E ok \in BOOLEAN : InitializeWeb(ok)
    \/ VerifyDevices
    \/ requested < MaxSwitches /\ switch_scene
    \/ \E s \in SwitchIds : SwitchStart(s)
    \/ \E s \in SwitchIds : SwitchAwaited(s)
    \/ \E s \in SwitchIds : SwitchExit(s)
    \/ \E s \in SwitchIds : SwitchCreate(s)
    \/ \E s \in SwitchIds : SwitchFinish(s)
    \/ \E t \in SwitchIds : TaskStart(t)
    \/ \E t \in SwitchIds : TaskReturn(t)
    \/ \E t \in SwitchIds : TaskUnwind(t)

SpecRuntime == InitRuntimeStart /\ [][NextRuntime]_vars

\* C23: initialize() raises exactly when no enabled backend initialized, and
\* when it returns the device list is not empty.
C23_InitializeFailsIffNoBackend ==
    /\ rt_pc = "failed" => succeeded = {}
    /\ rt_pc = "ready" => succeeded # {} /\ devices # <<>>
    /\ succeeded = Range(devices)

\* the hardware failed, the web backend initialized, and scenes are running
C23_Witness ==
    /\ rt_pc = "ready"
    /\ enable_hardware
    /\ devices = <<"web">>
    /\ current_scene # NoScene

\* the step in which switch s enters the on_enter of its new scene
Entering(s) == switch_pc[s] # "entering" /\ switch_pc'[s] = "entering"

\* C27: when a switch enters the new scene's on_enter, the scene it replaces
\* has its running flag cleared, its on_exit completed, and its main-loop
\* task finished.
C27_OldSceneGoneBeforeEnter ==
    [][\A s \in SwitchIds :
          Entering(s) /\ current_scene # NoScene =>
              /\ ~scene_running[current_scene]
              /\ current_scene \in exited'
              /\ task_state[current_scene] \in {"none", "done"}]_vars

\* C28: at most one scene main-loop task is inside main_loop at any time.
C28_OneSceneLoopTask ==
    Cardinality({t \in SwitchIds : task_state[t] \in {"running", "unwinding"}}) <= 1


(***************************************************************************)
(* The render cache alone: scenes caching rendered tiles while time passes *)
(***************************************************************************)
NextCache ==
    \/ /\ cache_calls < MaxCacheCalls
       /\ \E k \in CacheKeys, image \in CacheImages : _cache_image(k, image)
    \/ cache_clock < MaxCacheTime /\ CacheTock

SpecCache == InitWebButtons /\ [][NextCache]_vars

CacheCall(k) == cache_calls' = cache_calls + 1 /\ cache_last' = k

\* C24: a _cache_image call with a cache key that an earlier call was made with
\* returns the path the earlier call returned, and leaves the files of the cache
\* as they are (the file of that path keeps its modification time).
C24_SameKeySamePathNoRewrite ==
    [][\A k \in CacheKeys :
          CacheCall(k) /\ cache_returned[k] # None =>
              /\ cache_returned'[k] = cache_returned[k]
              /\ cache_files' = cache_files]_vars

\* a second call with the key of an earlier one, made after time has passed
C24_Witness ==
    /\ cache_calls >= 2
    /\ cache_last # None
    /\ cache_hit
    /\ cache_files[_get_cache_path(cache_last)].mtime < cache_clock


\* the tick of manager m that finds the foreground's duration used up
Expiring(m) ==
    /\ foreground_animation[m] # NoAnimation
    /\ Truthy(foreground_duration[m])
    /\ now - foreground_start_time[m][1] >= foreground_duration[m][1]

\* C25: every tick with at least one animation slot set advances exactly
\* one animation; the tick that detects the foreground's expiry clears the
\* foreground and, if a background is set, advances the background.
C25_OneAnimationPerTick ==
    [][Ticking("central") =>
          LET A == foreground_animation["central"]
              B == background_animation["central"]
          IN  /\ (A # NoAnimation \/ B # NoAnimation) =>
                     Cardinality(advanced'["central"]) = 1
              /\ Expiring("central") =>
                     /\ foreground_animation'["central"] = NoAnimation
                     /\ B # NoAnimation => advanced'["central"] = {B}]_vars


(***************************************************************************)
(* SpecLedCycle: the animation loop keeps running and the clock keeps      *)
(* moving; requests arrive until the clock reaches MaxTime                 *)
(***************************************************************************)
\* one cycle, or a positive number of seconds
CycleDurations == {d \in Durations : d = None \/ d[1] > 0}

\* a timed foreground ends before the clock stops
EndsInTime(d) == IF d = None THEN TRUE ELSE now + d[1] <= MaxTime

NextLedCycle ==
    \/ initialize_led_manager
    \/ now < MaxTime /\ \E a \in Animations : set_background_led_animation(a)
    \/ now < MaxTime /\ \E a \in Animations, d \in CycleDurations :
                            EndsInTime(d) /\ run_led_animation(a, d)
    \/ LedTick("central")
    \/ LedShow("central")
    \/ now < MaxTime /\ Tock

\* the loop thread is scheduled again and again (while self._running), and
\* time passes
SpecLedCycle ==
    /\ InitLedLoop
    /\ [][NextLedCycle]_vars
    /\ WF_vars(LedTick("central"))
    /\ WF_vars(LedShow("central"))
    /\ WF_vars(now < MaxTime /\ Tock)

\* a foreground started with duration=None while a background is set
OneCycleForeground ==
    /\ led_running["central"]
    /\ foreground_animation["central"] # NoAnimation
    /\ foreground_duration["central"] = None
    /\ background_animation["central"] # NoAnimation

\* C26: a foreground started by run_animation(A, duration=None) while a
\* background B is set is eventually cleared, and a tick then advances the
\* background again.
C26_OneCycleForegroundEnds ==
    OneCycleForeground ~>
        /\ foreground_animation["central"] = NoAnimation
        /\ advanced["central"] = {background_animation["central"]}


\* thread t takes submit's copy of _viewer_devices
Submitting(t) == pc[t] = "idle" /\ pc'[t] = "flush"

\* C30: once unregister_viewer(v) has returned, a set_tile does not invoke
\* v's callback and a submit that begins afterwards does not flush v's
\* device handle (the handles it copies all belong to registered viewers),
\* while the registrations of the other viewers stay as they are.
C30_UnregisteredViewerLeftAlone ==
    [][/\ \A v \in MockViewers :
              notified'[v] # notified[v] => v \in Range(viewer_callbacks)
       /\ \A t \in Threads :
              Submitting(t) => Range(snap'[t]) \subseteq Range(viewer_callbacks)
       /\ \A v \in MockViewers :
              (v \in Range(viewer_callbacks) /\ v \notin Range(viewer_callbacks')) =>
                  \A w \in MockViewers \ {v} :
                      /\ w \in Range(viewer_callbacks) <=> w \in Range(viewer_callbacks')
                      /\ w \in Range(viewer_devices) <=> w \in Range(viewer_devices')]_vars


(***************************************************************************)
(* SpecConcurrent: one thread flushes the devices while any thread may     *)
(* call set_tile on the state manager                                      *)
(***************************************************************************)
MaxConcOps == 4

\* the thread that calls submit
Submitter == "t1"

ConcurrentCalls ==
    { <<0, 0, "cover.png", "k1">>,
      <<0, 0, "alt.png", "k2">>,
      <<0, 1, "alt.png", "k2">> }

NextConcurrent ==
    \/ \E t \in Threads :
        \/ \E c \in ConcurrentCalls :
               nops < MaxConcOps /\ SetTileBegin(t, c[1], c[2], c[3], c[4])
        \/ NotifyDevice(t)
        \/ SetTileEnd(t)
    \/ nops < MaxConcOps /\ SubmitBegin(Submitter)
    \/ HwSubmitBegin(Submitter)
    \/ \E res \in WriteResults : HwSendTile(Submitter, res)
    \/ HwSubmitEnd(Submitter)
    \/ WebSubmitBegin(Submitter)
    \/ WebSendTile(Submitter)
    \/ WebSubmitEnd(Submitter)
    \/ SubmitEnd(Submitter)

SpecConcurrent == InitDevicesRegistered /\ [][NextConcurrent]_vars

\* device d's queue is cleared
Clearing(d) == tile_queue[d] # <<>> /\ tile_queue'[d] = <<>>

\* C29: a flush clears from a device's queue only entries it has examined,
\* so a tile queued by a set_tile that runs during the flush is transmitted
\* by this or a later flush and not discarded.
C29_FlushClearsOnlyExamined ==
    [][\A d \in Devices :
          Clearing(d) => Range(tile_queue[d]) \subseteq examined'[d]]_vars


(***************************************************************************)
(* SpecStrip: one LEDManager, started and stopped, its loop threads, and   *)
(* callers changing slots and pixels                                       *)
(***************************************************************************)
\* one cycle, or one second
StripDurations == {None, <<1>>}

NextStrip ==
    \/ start
    \/ StopBegin
    \/ \E timedOut \in BOOLEAN : StopJoin(timedOut)
    \/ \E th \in LoopThreads : LoopCheck(th)
    \/ \E th \in LoopThreads : LoopTick(th)
    \/ \E th \in LoopThreads : LoopShow(th)
    \/ \E color \in Colors : set_all(color)
    \/ \E a \in Animations : manager_set_background_animation(a)
    \/ \E a \in Animations, d \in StripDurations : manager_run_animation(a, d)
    \/ now < MaxStripTime /\ StripTock

SpecStrip == InitLedLoop /\ [][NextStrip]_vars

\* C31: whatever start() and stop() calls are made, at most one animation
\* loop thread is alive.
C31_OneLoopThread ==
    Cardinality({th \in LoopThreads : Alive(th)}) <= 1


\* a step of a caller of the manager (no loop thread and no stop() moves)
CallerStep == loop_pc' = loop_pc /\ stop_pc' = stop_pc /\ led_thread' = led_thread

foregroundVars == <<foreground_animation, foreground_duration, foreground_start_time>>

\* C32: a set_background_animation or run_animation call changes slots
\* only: the pixel buffer stays as it is, a call that changes the
\* background slot leaves the foreground slot, duration and start time, and
\* a call that changes the foreground leaves the background slot.
C32_SlotCallsSwapReferencesOnly ==
    [][(CallerStep /\ slotVars' # slotVars) =>
          /\ pixels' = pixels
          /\ background_animation' # background_animation =>
                 foregroundVars' = foregroundVars
          /\ foregroundVars' # foregroundVars =>
                 background_animation' = background_animation]_vars

\* run_animation was called after a tick had drawn the background
C32_Witness ==
    /\ foreground_animation["central"] # NoAnimation
    /\ background_animation["central"] # NoAnimation
    /\ foreground_animation["central"] # background_animation["central"]
    /\ foreground_start_time["central"] = <<now>>
    /\ now > 0
    /\ pixels = [i \in 1 .. NumLeds |-> background_animation["central"]]

\* C33: a set_all(color) call leaves every pixel at color, whether or not
\* the loop is running, and leaves the background and foreground slots,
\* the foreground's duration and its start time as they are.
C33_SetAllWritesEveryPixel ==
    [][(CallerStep /\ pixels' # pixels) =>
          /\ \E color \in Colors : pixels' = [i \in 1 .. NumLeds |-> color]
          /\ slotVars' = slotVars]_vars

\* set_all("red") was called while a loop thread was alive and a foreground set
C33_Witness ==
    /\ pixels = [i \in 1 .. NumLeds |-> "red"]
    /\ \E th \in LoopThreads : Alive(th)
    /\ foreground_animation["central"] # NoAnimation
    /\ background_animation["central"] # NoAnimation


\* C34: a frame dispatches a callback only if its key is a button (1..15,
\* not the no-event value) and its status is one of the three known values:
\* pressed for status 1, released for status 0 or 2; a frame with any other
\* status dispatches nothing.
C34_KnownStatusOnly ==
    [][Decoding =>
          LET key == read_result[3]
              status == read_result[4]
          IN  dispatched' # <<>> =>
                  /\ key \in 1 .. 15
                  /\ status \in {0, 1, 2}
                  /\ dispatched'[1][3] = (status = 1)]_vars


\* the loop handles a failure
Failing == read_failures' = read_failures + 1

\* C40: a failure while handling one frame (the key callback raises, or the
\* frame cannot be read or decoded) leaves the running flag as it is and
\* the loop at its next read, and with failures behind it the loop still
\* dispatches every button frame to the registered callback.
C40_ReadLoopSurvivesFailure ==
    [][/\ Failing => read_running' = read_running /\ read_pc' = "read"
       /\ (Decoding /\ read_failures > 0 /\ key_callback
                    /\ read_result[3] \in 1 .. 15) =>
              /\ Len(dispatched') = 1
              /\ dispatched'[1][3] = (read_result[4] = 1)]_vars

\* after a failure, a later button frame was dispatched without one
C40_Witness ==
    /\ read_running
    /\ read_failures > 0
    /\ read_failed = "none"
    /\ read_pc = "read"
    /\ dispatched # <<>>


\* the hardware's submit comes to its end, by return or by an exception
HwSubmitEnding(t) == pc[t] = "hw_send" /\ pc'[t] # "hw_send"

\* C35: a hardware submit that has transmitted at least one tile ends with
\* exactly one refresh issued, and issues none while tiles are still being
\* written.
C35_OneRefreshAfterWrites ==
    [][\A t \in SceneThreads :
          /\ (pc[t] = "hw_send" /\ pc'[t] = "hw_send") => refreshes' = 0
          /\ (HwSubmitEnding(t) /\ \E s \in Grid : sent'["hw"][s] > 0) =>
                 refreshes' = 1]_vars


\* the reports and the clock of the ordering check
MaxReports == 2
MaxPollTime == 1

\* a backend reports key events while the synchronous poller, the
\* asynchronous poller and abandoned executor workers take them
NextFifo ==
    \/ /\ enqueued < MaxReports
       /\ \E is_pressed \in BOOLEAN : on_device_key_event(0, 0, is_pressed)
    \/ \E p \in Pollers, timeout \in PollTimeouts :
           now + timeout <= MaxPollTime /\ PollStart(p, timeout)
    \/ \E p \in Pollers : PollGet(p)
    \/ \E p \in Pollers : PollEmpty(p)
    \/ \E timeout \in PollTimeouts :
           now + timeout <= MaxPollTime /\ AsyncStart(timeout)
    \/ AsyncLoop
    \/ AsyncWorkerGet
    \/ AsyncWorkerEmpty
    \/ AsyncCancel
    \/ \E deadline \in orphans : OrphanGet(deadline)
    \/ \E deadline \in orphans : OrphanEmpty(deadline)
    \/ now < MaxPollTime /\ Tock

SpecFifo == InitPoll /\ [][NextFifo]_vars

\* C36: the events returned to pollers are returned in the order in which
\* on_device_key_event reported them (event ids count the reports), so the
\* press of a key is returned before its release.
C36_PolledInReportedOrder ==
    \A i, j \in 1 .. Len(delivered) : i < j => delivered[i] < delivered[j]

\* the press and then the release of a key were polled, the release last
C36_Witness ==
    /\ delivered = <<1, 2>>
    /\ poll_result["p1"] # None
    /\ ~poll_result["p1"][1].is_pressed
    /\ poll_result["p1"][1].id = 2


(***************************************************************************)
(* SpecClose: close() called on the backends; SpecShutdown: the runtime    *)
(* closes them                                                             *)
(***************************************************************************)
InitCloseSpec ==
    /\ InitDSM /\ InitThreads /\ InitObs
    /\ InitDevices /\ InitDisplayedState /\ InitWire
    /\ InitAux

CloseSteps(d) ==
    \/ \E timedOut \in BOOLEAN : CloseJoin(d, timedOut)
    \/ CloseLed(d)
    \/ \E timedOut \in BOOLEAN, raises \in BOOLEAN : CloseLedJoin(d, timedOut, raises)
    \/ \E raises \in BOOLEAN : CloseDevice(d, raises)

NextClose ==
    \/ \E d \in Devices, reached \in InitStages : initialize(d, reached)
    \/ \E d \in Devices : close(d)
    \/ \E d \in Devices : CloseSteps(d)
    \/ \E d \in Devices : WorkerExit(d)
    \/ \E d \in Devices : StripExit(d)

\* a bounded join returns and close() goes on; nothing makes a worker exit
SpecClose ==
    /\ InitCloseSpec
    /\ [][NextClose]_vars
    /\ \A d \in Devices : WF_vars(CloseSteps(d))

\* C37: close() of either backend, once called, reaches its end whether or
\* not the worker and the LED thread exit, and no error of the LED shutdown,
\* of clearing the tiles or of closing the transport leaves close().
C37_CloseTerminates ==
    /\ \A d \in Devices :
           (close_pc[d] \notin {"new", "open"}) ~> (close_pc[d] = "closed")
    /\ [](\A d \in Devices : ~close_escaped[d])

\* the hardware was closed with its read thread left alive and an error logged
C37_Witness ==
    /\ close_pc["hw"] = "closed"
    /\ worker_alive["hw"]
    /\ close_logged["hw"]
    /\ close_pc["web"] = "closed"

NextShutdown ==
    \/ \E d \in Devices, reached \in InitStages : initialize(d, reached)
    \/ \E d \in Devices : initialize_sound(d)
    \/ ShutdownBegin
    \/ \E raises \in BOOLEAN : ShutdownSound(raises)
    \/ ShutdownClose
    \/ ShutdownCloseReturns
    \/ \E d \in Devices : CloseSteps(d)
    \/ \E d \in Devices : WorkerExit(d)
    \/ \E d \in Devices : StripExit(d)

SpecShutdown == InitCloseSpec /\ [][NextShutdown]_vars

PushedRows == {None, <<0>>, <<TILE_ROWS - 1>>, <<TILE_ROWS>>}
PushedCols == {<<0>>, <<TILE_COLS>>}
PushedMessages == [event : ButtonEvents, row : PushedRows, col : PushedCols]

\* the key bytes the hardware may send: the first and last key, one past, none
ReportedKeys == {1, 15, 16, NoEventKey}

\* the handler of a button message runs through WebDevice._on_button_event
\* into the registered callback, InputManager.on_device_key_event
WebKeyEvent(message) ==
    LET calls == IF message.event = "button_press"
                 THEN handle_button_press(message)
                 ELSE handle_button_release(message)
    IN  /\ calls # <<>>
        /\ on_device_key_event(calls[1][1], calls[1][2], calls[1][3])

\* the read loop decodes a frame and invokes the same callback
HwKeyEvent(key, status) ==
    LET calls == DispatchKey(key, status)
    IN  /\ calls # <<>>
        /\ on_device_key_event(calls[1][1], calls[1][2], calls[1][3])

NextDelivery ==
    \/ /\ enqueued < MaxEvents
       /\ \E message \in PushedMessages : WebKeyEvent(message)
    \/ /\ enqueued < MaxEvents
       /\ \E key \in ReportedKeys, status \in {0, 1} : HwKeyEvent(key, status)
    \/ set_web_device
    \/ web_register_key_callback
    \/ register_key_callback
    \/ \E p \in Pollers : PollStart(p, 0)
    \/ \E p \in Pollers : PollGet(p)
    \/ \E p \in Pollers : PollEmpty(p)

SpecDelivery == InitWebButtons /\ [][NextDelivery]_vars

\* C39: an event returned by poll_event has its row in [0, 3) and its column
\* in [0, 5), whether the read loop or a button message reported it.
C39_DeliveredInsideGrid ==
    \A p \in Pollers :
        poll_result[p] # None =>
            <<poll_result[p][1].row, poll_result[p][1].col>> \in Grid

====
